---- MODULE Spec2Model ----
(***************************************************************************)
(* A model of the retrieval engine of rag-sample:                          *)
(*   - ChatHistory (src/models/document.py) and RAGEngine.chat             *)
(*     (src/rag/engine.py);                                                *)
(*   - the Chroma-backed VectorStore (src/rag/vector_store.py) with its    *)
(*     two collections "documents" and "images".                           *)
(* Specifications:                                                         *)
(*   SpecChat  - chat calls issued one after another on one engine         *)
(*   SpecStore - store operations issued one after another on one store    *)
(***************************************************************************)
EXTENDS Integers, Sequences, FiniteSets, TLC

(***************************************************************************)
(* Bounds of the model                                                     *)
(***************************************************************************)
\* chunks a document is split into, at most
MaxChunks == 2
\* records a collection holds, at most
MaxStored == 3
\* largest top-k a search is called with
MaxK == 2
\* chunks of a long document: more than one page of a scroll
MaxScrolled == 11
\* number of chat calls issued on the engine
MaxCalls == 3
\* largest max_chat_history the engine is created with
MaxCap == 4
\* longest user message, in characters
MaxMsgLen == 1

\* chat callers (request handlers)
Threads == {"t1"}

\* characters a message is made of: a blank and a non-blank
Chars == {" ", "a"}

RECURSIVE SeqsUpTo(_, _)
\* all sequences over S of length at most n
SeqsUpTo(S, n) ==
    IF n = 0 THEN {<<>>}
    ELSE LET shorter == SeqsUpTo(S, n - 1)
         IN  shorter \cup {Append(s, x) : s \in {q \in shorter : Len(q) = n - 1}, x \in S}

\* the user messages chat is called with
Messages == SeqsUpTo(Chars, MaxMsgLen)

\* the text the LLM answers with
Answers == {<<"a">>}

\* Optional[int]: None is <<>>, the integer n is <<n>>
None == <<>>
Some(n) == <<n>>

VARIABLES
    chat_history,   \* RAGEngine.chat_history: [messages, max_messages]
    pc,             \* position of each caller inside chat
    call,           \* per caller: the arguments and locals of its chat call
    result,         \* per caller: what its last chat call returned or raised
    appended,       \* history: every turn handed to add_message since creation/clear
    outcomes,       \* history: outcome of every finished chat call since creation/clear
    vector_db_type, \* Config.vector_db_type: which backend the store talks to
    image_caption_auto_generate, \* Config.image_caption_auto_generate
    config_py,      \* utils/config.py: _config_instance, and the callers inside get_config
    deleting,       \* the request handlers inside VectorStore.delete, and what they did
    collection_name,\* VectorStore.collection_name
    client,         \* VectorStore.client is not None
    collection,     \* VectorStore.collection is not None (Chroma handle)
    existing,       \* backend: names of the collections that exist
    db,             \* backend: the records of each collection, in insertion order
    db_before,      \* history: db when the last store operation was called
    op,             \* the last store operation and its arguments
    ret,            \* what the last store operation returned or raised
    chunks_count,   \* history: per document, the chunks_count its one ingest reported
    deleted,        \* history: documents deleted by id and not upserted since
    was_closed,     \* history: close() has been called on the store
    mm              \* a multimodal search in progress: position, locals, events

chatVars == <<chat_history, pc, call, result, appended, outcomes>>
storeState == <<vector_db_type, image_caption_auto_generate, config_py, deleting, collection_name, client,
                collection, existing, db, db_before, op, ret, chunks_count, deleted,
                was_closed>>
storeVars == <<storeState, mm>>
vars == <<chatVars, storeVars>>

(***************************************************************************)
(* Python helpers                                                          *)
(***************************************************************************)
\* s[-n:] for n > 0: the last n elements, all of s when n >= len(s)
PySliceLast(s, n) ==
    IF n >= Len(s) THEN s ELSE SubSeq(s, Len(s) - n + 1, Len(s))

\* s[:-1]: everything but the last element
PyAllButLast(s) ==
    IF Len(s) = 0 THEN <<>> ELSE SubSeq(s, 1, Len(s) - 1)

RECURSIVE lstrip(_)
lstrip(s) ==
    IF s # <<>> /\ Head(s) = " " THEN lstrip(Tail(s)) ELSE s

RECURSIVE rstrip(_)
rstrip(s) ==
    IF s # <<>> /\ s[Len(s)] = " " THEN rstrip(SubSeq(s, 1, Len(s) - 1)) ELSE s

\* str.strip()
strip(s) == rstrip(lstrip(s))

\* truthiness of an Optional[int]: None and 0 are falsy
Truthy(opt) == opt # None /\ opt[1] # 0

(***************************************************************************)
(* ChatMessage / ChatHistory                                               *)
(***************************************************************************)
\* timestamps are a logical clock: the number of turns created so far
ChatMessage(role, content, ts) ==
    [role |-> role, content |-> content, timestamp |-> ts]

\* mutant: keeps the oldest max_messages turns instead of the newest
add_message_keeps_oldest(h, role, content, ts) ==
    LET msgs == Append(h.messages, ChatMessage(role, content, ts))
    IN  IF Truthy(h.max_messages) /\ Len(msgs) > h.max_messages[1]
        THEN [h EXCEPT !.messages = SubSeq(msgs, 1, h.max_messages[1])]
        ELSE [h EXCEPT !.messages = msgs]

\* mutant: trims when the cap is reached, not when it is exceeded
add_message_trims_early(h, role, content, ts) ==
    LET msgs == Append(h.messages, ChatMessage(role, content, ts))
    IN  IF Truthy(h.max_messages) /\ Len(msgs) >= h.max_messages[1]
        THEN [h EXCEPT !.messages = PySliceLast(msgs, h.max_messages[1] - 1)]
        ELSE [h EXCEPT !.messages = msgs]

\* mutant: every cap that is set counts, 0 included
add_message_zero_is_a_cap(h, role, content, ts) ==
    LET msgs == Append(h.messages, ChatMessage(role, content, ts))
    IN  IF h.max_messages # None /\ Len(msgs) > h.max_messages[1]
        THEN [h EXCEPT !.messages =
                 SubSeq(msgs, Len(msgs) - h.max_messages[1] + 1, Len(msgs))]
        ELSE [h EXCEPT !.messages = msgs]

\* ChatHistory.add_message: append, then keep the last max_messages turns
add_message(h, role, content, ts) ==
    LET msgs == Append(h.messages, ChatMessage(role, content, ts))
    IN  IF Truthy(h.max_messages) /\ Len(msgs) > h.max_messages[1]
        THEN [h EXCEPT !.messages = PySliceLast(msgs, h.max_messages[1])]
        ELSE [h EXCEPT !.messages = msgs]

\* the next value of the logical clock
Now == Len(appended) + 1

NoCall == [message |-> <<>>, user_turn |-> 0, prompt_history |-> <<>>]
NoResult == [raised |-> "none", history_length |-> -1, answered |-> FALSE]

InitChat ==
    /\ \E cap \in {None} \cup {Some(n) : n \in 0..MaxCap} :
          chat_history = [messages |-> <<>>, max_messages |-> cap]
    /\ pc = [t \in Threads |-> "idle"]
    /\ call = [t \in Threads |-> NoCall]
    /\ result = [t \in Threads |-> NoResult]
    /\ appended = <<>>
    /\ outcomes = <<>>

(***************************************************************************)
(* RAGEngine.chat, one action per blocking step                            *)
(***************************************************************************)
Idle == \A t \in Threads : pc[t] = "idle"

Finish(t, raised, outcome, hist) ==
    /\ pc' = [pc EXCEPT ![t] = "idle"]
    /\ result' = [result EXCEPT ![t] =
                    [raised |-> raised,
                     history_length |-> IF raised = "none" THEN Len(hist.messages) ELSE -1,
                     answered |-> raised = "none"]]
    /\ outcomes' = Append(outcomes, outcome)

\* mutant: the user turn is only logged once the answer is there
ChatStart_defers_user_turn(t, message) ==
    /\ pc[t] = "idle"
    /\ Len(outcomes) < MaxCalls
    /\ chat_history' = chat_history
    /\ appended' = appended
    /\ call' = [call EXCEPT ![t] = [message |-> message, user_turn |-> Now,
                                     prompt_history |-> <<>>]]
    /\ result' = [result EXCEPT ![t] = NoResult]
    /\ pc' = [pc EXCEPT ![t] = "retrieve"]
    /\ UNCHANGED outcomes

\* mutant: a blank message is refused before anything is logged
ChatStart_refuses_blank_first(t, message) ==
    /\ pc[t] = "idle"
    /\ Len(outcomes) < MaxCalls
    /\ call' = [call EXCEPT ![t] = [message |-> message, user_turn |-> Now,
                                     prompt_history |-> <<>>]]
    /\ IF strip(message) = <<>>
       THEN /\ Finish(t, "RetrievalFailed", "retrieve_error", chat_history)
            /\ UNCHANGED <<chat_history, appended>>
       ELSE /\ chat_history' = add_message(chat_history, "user", message, Now)
            /\ appended' = Append(appended, ChatMessage("user", message, Now))
            /\ result' = [result EXCEPT ![t] = NoResult]
            /\ pc' = [pc EXCEPT ![t] = "retrieve"]
            /\ UNCHANGED outcomes

\* chat, line 293: the user turn goes into the log first
ChatStart(t, message) ==
    /\ pc[t] = "idle"
    /\ Len(outcomes) < MaxCalls
    /\ chat_history' = add_message(chat_history, "user", message, Now)
    /\ appended' = Append(appended, ChatMessage("user", message, Now))
    /\ call' = [call EXCEPT ![t] = [message |-> message, user_turn |-> Now,
                                     prompt_history |-> <<>>]]
    /\ result' = [result EXCEPT ![t] = NoResult]
    /\ pc' = [pc EXCEPT ![t] = "retrieve"]
    /\ UNCHANGED outcomes

\* chat, lines 296-300: retrieve raises on a blank query and wraps every
\* embedder or store failure; backendOk is the outcome of embedder and store
ChatRetrieve(t, backendOk) ==
    /\ pc[t] = "retrieve"
    /\ IF strip(call[t].message) = <<>> \/ ~backendOk
       THEN /\ Finish(t, "RetrievalFailed", "retrieve_error", chat_history)
            /\ UNCHANGED <<chat_history, call, appended>>
       ELSE /\ pc' = [pc EXCEPT ![t] = "prompt"]
            /\ UNCHANGED <<chat_history, call, result, appended, outcomes>>

\* chat, lines 313-329: the prompt renders every turn but the last one
ChatBuildPrompt(t) ==
    /\ pc[t] = "prompt"
    /\ call' = [call EXCEPT ![t].prompt_history =
                  IF Len(chat_history.messages) > 1
                  THEN PyAllButLast(chat_history.messages) ELSE <<>>]
    /\ pc' = [pc EXCEPT ![t] = "invoke"]
    /\ UNCHANGED <<chat_history, result, appended, outcomes>>

\* mutant: the assistant turn is logged before the LLM call is known to succeed
ChatGenerate_logs_on_failure(t, llmOk, answer) ==
    /\ pc[t] = "invoke"
    /\ LET next == add_message(chat_history, "assistant", answer, Now)
       IN  /\ chat_history' = next
           /\ appended' = Append(appended, ChatMessage("assistant", answer, Now))
           /\ IF llmOk THEN Finish(t, "none", "ok", next)
                       ELSE Finish(t, "GenerationFailed", "llm_error", next)
           /\ UNCHANGED call

\* chat, lines 331-376: invoke the LLM; on success append the assistant turn
\* and report history_length, on failure raise with the log untouched
ChatGenerate(t, llmOk, answer) ==
    /\ pc[t] = "invoke"
    /\ IF llmOk
       THEN LET next == add_message(chat_history, "assistant", answer, Now)
            IN  /\ chat_history' = next
                /\ appended' = Append(appended, ChatMessage("assistant", answer, Now))
                /\ Finish(t, "none", "ok", next)
                /\ UNCHANGED call
       ELSE /\ Finish(t, "GenerationFailed", "llm_error", chat_history)
            /\ UNCHANGED <<chat_history, call, appended>>

\* RAGEngine.clear_chat_history: drop every turn; the histories restart
clear_chat_history ==
    /\ Idle
    /\ chat_history' = [chat_history EXCEPT !.messages = <<>>]
    /\ appended' = <<>>
    /\ outcomes' = <<>>
    /\ UNCHANGED <<pc, call, result>>

(***************************************************************************)
(* The vector store: data                                                  *)
(***************************************************************************)
CollNames == {"documents", "images"}
DocIds == {"d1", "d2"}
ImageIds == {<<"i1">>, <<"i2">>}

\* Embeddings are unit vectors in the plane, named by their angle in quarter
\* turns; Cosine and SquaredL2 are the exact values for such vectors.
Vecs == {0, 1}

AngleBetween(v, q) == IF v >= q THEN (v - q) % 4 ELSE (q - v) % 4

Cosine(v, q) ==
    CASE AngleBetween(v, q) = 0 -> 1
      [] AngleBetween(v, q) = 2 -> -1
      [] OTHER -> 0

\* Chroma's default distance
SquaredL2(v, q) == 2 - 2 * Cosine(v, q)

\* DocumentProcessor._generate_chunk_id: <document_id>_chunk_<index>
ChunkId(document_id, chunk_index) == <<document_id, chunk_index>>

\* A Chunk as the store sees it: Chunk.__post_init__ writes document_id into
\* the metadata. Optional metadata keys are <<>> (absent) or <<value>>.
Chunk(document_id, chunk_index) ==
    [id |-> ChunkId(document_id, chunk_index), document_id |-> Some(document_id)]

\* An ImageDocument as the store sees it: its metadata has no document_id
ImageDocument(image_id) ==
    [id |-> image_id, document_id |-> None]

\* the chunks DocumentProcessor.create_chunks makes of a document of n chunks
Chunks(document_id, n) == [i \in 1..n |-> Chunk(document_id, i - 1)]

\* zip(items, embeddings): as long as the shorter list
Zip(items, embeddings) ==
    LET n == IF Len(items) <= Len(embeddings) THEN Len(items) ELSE Len(embeddings)
    IN  [i \in 1..n |->
            IF "caption" \in DOMAIN items[i]
            THEN [id |-> items[i].id, document_id |-> items[i].document_id,
                  caption |-> items[i].caption, vec |-> embeddings[i]]
            ELSE [id |-> items[i].id, document_id |-> items[i].document_id,
                  vec |-> embeddings[i]]]

Ids(c) == {c[i].id : i \in DOMAIN c}

\* a metadata filter is a set of <<key, value>> pairs, all of which must match
Meta(rec, key) == IF key = "document_id" THEN rec.document_id ELSE None
Matches(rec, filter) == \A kv \in filter : Meta(rec, kv[1]) = Some(kv[2])

Filters == {{}} \cup {{<<"document_id", d>>} : d \in DocIds}

Count(c) == Len(c)

(***************************************************************************)
(* The backends                                                            *)
(***************************************************************************)
\* mutant: every record of the batch is appended, stored or not
chroma_add_appends(c, recs) == c \o recs

\* chromadb Collection.add: records whose id is already stored are ignored
chroma_add(c, recs) ==
    LET Fresh(r) == r.id \notin Ids(c)
    IN  c \o SelectSeq(recs, Fresh)

\* Collection.add refuses a batch that names an id twice
HasDuplicateIds(recs) == \E i, j \in DOMAIN recs : i # j /\ recs[i].id = recs[j].id

\* mutant: a stored point is kept and the new one appended next to it
qdrant_upsert_appends(c, recs) == c \o recs

\* one point of an upsert: a stored point with that id is overwritten in
\* place, a new one is appended
UpsertPoint(c, r) ==
    IF r.id \in Ids(c) THEN [i \in DOMAIN c |-> IF c[i].id = r.id THEN r ELSE c[i]]
    ELSE Append(c, r)

\* qdrant upsert: the points of the batch one after the other
RECURSIVE qdrant_upsert(_, _)
qdrant_upsert(c, recs) ==
    IF recs = <<>> THEN c ELSE qdrant_upsert(UpsertPoint(c, Head(recs)), Tail(recs))

\* mutant: only the first matching record goes
delete_where_first_only(c, filter) ==
    LET hit == {i \in DOMAIN c : Matches(c[i], filter)}
        first == CHOOSE i \in hit : \A j \in hit : i <= j
    IN  IF hit = {} THEN c
        ELSE SubSeq(c, 1, first - 1) \o SubSeq(c, first + 1, Len(c))

\* delete(where=filter): every record the filter matches goes
delete_where(c, filter) ==
    LET Stays(r) == ~Matches(r, filter)
    IN  SelectSeq(c, Stays)

\* delete(ids=ids)
delete_ids(c, ids) ==
    LET Stays(r) == \A i \in DOMAIN ids : ids[i] # r.id
    IN  SelectSeq(c, Stays)

\* x goes behind every element whose key is not larger: a stable ascending sort
InsertAsc(sorted, x) ==
    LET n == Cardinality({i \in DOMAIN sorted : sorted[i].key <= x.key})
    IN  SubSeq(sorted, 1, n) \o <<x>> \o SubSeq(sorted, n + 1, Len(sorted))

RECURSIVE SortAsc(_)
SortAsc(s) ==
    IF s = <<>> THEN <<>> ELSE InsertAsc(SortAsc(PyAllButLast(s)), s[Len(s)])

FirstN(s, n) == IF n >= Len(s) THEN s ELSE SubSeq(s, 1, n)

NegCosine(v, q) == 0 - Cosine(v, q)

\* nearest neighbours: the k records the filter matches that are nearest to q,
\* nearest first, equally near ones in insertion order; metric names the
\* ordering key: squared L2 distance, or cosine similarity (largest first)
Nearest(c, q, k, filter, metric) ==
    LET Hit(r) == Matches(r, filter)
        Key(v, w) == IF metric = "l2" THEN SquaredL2(v, w) ELSE NegCosine(v, w)
        keyed == [i \in DOMAIN SelectSeq(c, Hit) |->
                    [rec |-> SelectSeq(c, Hit)[i],
                     key |-> Key(SelectSeq(c, Hit)[i].vec, q)]]
    IN  FirstN(SortAsc(keyed), k)

\* chromadb Collection.query: by ascending distance
chroma_query(c, q, k, filter) == Nearest(c, q, k, filter, "l2")

\* qdrant search: by descending cosine similarity
qdrant_search(c, q, k, filter) == Nearest(c, q, k, filter, "cosine")

(***************************************************************************)
(* Results                                                                 *)
(***************************************************************************)
Raise(kind) == [raised |-> kind, value |-> <<>>]
Return(v) == [raised |-> "none", value |-> v]

\* scores are exact fractions num/den with den > 0
Frac(n, d) == [num |-> n, den |-> d]
Times(a, b) == Frac(a.num * b.num, a.den * b.den)
GreaterEq(a, b) == a.num * b.den >= b.num * a.den

\* SearchResult.__post_init__: the score has to lie in [0, 1]
ValidScore(score) == GreaterEq(score, Frac(0, 1)) /\ GreaterEq(Frac(1, 1), score)

SearchResult(rec, score, rank, result_type) ==
    [chunk_id |-> rec.id,
     document_id |-> IF result_type = "image" THEN rec.id
                     ELSE IF rec.document_id = None THEN "" ELSE rec.document_id[1],
     score |-> score, rank |-> rank, result_type |-> result_type]

\* Optional[dict] -> the filter the backend applies (None: no filter)
FilterOf(where) == IF where = None THEN {} ELSE where[1]

\* truthiness of Optional[str], Optional[list], Optional[dict]
TruthyStr(o) == o # None /\ o[1] # ""
TruthyList(o) == o # None /\ o[1] # <<>>
TruthyDict(o) == o # None /\ o[1] # {}

\* the similarity score of VectorStore.search / search_images
ChromaScore(distance) == Frac(1, 1 + distance)

\* hits of a Chroma query result, ranked from 1
ChromaHits(found, result_type) ==
    [i \in DOMAIN found |->
        SearchResult(found[i].rec, ChromaScore(found[i].key), i, result_type)]

(***************************************************************************)
(* VectorStore (Chroma): what each method does to the collection c it      *)
(* works on and what it returns; is_open is the method's first guard       *)
(***************************************************************************)
Outcome(r, c) == [ret |-> r, coll |-> c]

\* mutant: no length check, the lists are zipped
add_documents_zips(is_open, c, chunks, embeddings) ==
    IF ~is_open THEN Outcome(Raise("NotInitialized"), c)
    ELSE IF chunks = <<>> THEN Outcome(Return(None), c)
    ELSE IF HasDuplicateIds(Zip(chunks, embeddings))
         THEN Outcome(Raise("BackendError"), c)
    ELSE Outcome(Return(None), chroma_add(c, Zip(chunks, embeddings)))

\* VectorStore.add_documents
add_documents(is_open, c, chunks, embeddings) ==
    IF ~is_open THEN Outcome(Raise("NotInitialized"), c)
    ELSE IF Len(chunks) # Len(embeddings) THEN Outcome(Raise("LengthMismatch"), c)
    ELSE IF chunks = <<>> THEN Outcome(Return(None), c)
    ELSE IF HasDuplicateIds(Zip(chunks, embeddings))
         THEN Outcome(Raise("BackendError"), c)
    ELSE Outcome(Return(None), chroma_add(c, Zip(chunks, embeddings)))

\* VectorStore.search; fault: the backend query raises
search(is_open, c, q, k, where, fault) ==
    IF ~is_open THEN Raise("NotInitialized")
    ELSE IF fault THEN Raise("BackendError")
    ELSE Return(ChromaHits(chroma_query(c, q, k, FilterOf(where)), "text"))

\* mutant: reports the number of records left instead of the number removed
delete_reports_rest(is_open, c, document_id, chunk_ids, where) ==
    IF ~is_open THEN Outcome(Raise("NotInitialized"), c)
    ELSE LET after ==
               IF TruthyStr(document_id)
               THEN delete_where(c, {<<"document_id", document_id[1]>>})
               ELSE IF TruthyList(chunk_ids) THEN delete_ids(c, chunk_ids[1])
               ELSE IF TruthyDict(where) THEN delete_where(c, where[1])
               ELSE c
         IN  IF ~(TruthyStr(document_id) \/ TruthyList(chunk_ids) \/ TruthyDict(where))
             THEN Outcome(Raise("MissingDeletePredicate"), c)
             ELSE Outcome(Return(Count(after)), after)

\* VectorStore.delete: the first truthy condition decides; the count returned
\* is the collection's count before minus its count after
delete(is_open, c, document_id, chunk_ids, where) ==
    IF ~is_open THEN Outcome(Raise("NotInitialized"), c)
    ELSE LET after ==
               IF TruthyStr(document_id)
               THEN delete_where(c, {<<"document_id", document_id[1]>>})
               ELSE IF TruthyList(chunk_ids) THEN delete_ids(c, chunk_ids[1])
               ELSE IF TruthyDict(where) THEN delete_where(c, where[1])
               ELSE c
         IN  IF ~(TruthyStr(document_id) \/ TruthyList(chunk_ids) \/ TruthyDict(where))
             THEN Outcome(Raise("MissingDeletePredicate"), c)
             ELSE Outcome(Return(Count(c) - Count(after)), after)

\* the document ids of c in first-seen order (dict insertion order)
RECURSIVE DocOrder(_)
DocOrder(c) ==
    IF c = <<>> THEN <<>>
    ELSE LET front == DocOrder(PyAllButLast(c))
             d == IF c[Len(c)].document_id = None THEN "unknown"
                  ELSE c[Len(c)].document_id[1]
         IN  IF \E i \in DOMAIN front : front[i] = d THEN front ELSE Append(front, d)

DocIdOf(rec) == IF rec.document_id = None THEN "unknown" ELSE rec.document_id[1]

\* metadata 'size' of a stored chunk: Chunk.size, the length of its content;
\* here the chunk with index i is i + 1 characters long
SizeOf(rec) == rec.id[2] + 1

\* sum(size of r for r in recs)
RECURSIVE TotalSize(_)
TotalSize(recs) ==
    IF recs = <<>> THEN 0 ELSE SizeOf(Head(recs)) + TotalSize(Tail(recs))

\* the grouping loop of list_documents over the records fetched
GroupByDocument(fetched) ==
    [i \in DOMAIN DocOrder(fetched) |->
        [document_id |-> DocOrder(fetched)[i],
         chunk_count |-> Cardinality({j \in DOMAIN fetched :
                                        DocIdOf(fetched[j]) = DocOrder(fetched)[i]}),
         total_size |-> TotalSize(SelectSeq(fetched,
                            LAMBDA r : DocIdOf(r) = DocOrder(fetched)[i]))]]

\* VectorStore.list_documents: collection.get(limit=limit), then group
list_documents(is_open, c, limit) ==
    IF ~is_open THEN Raise("NotInitialized")
    ELSE IF Count(c) = 0 THEN Return(<<>>)
    ELSE Return(GroupByDocument(IF limit = None THEN c ELSE FirstN(c, limit[1])))

\* VectorStore.get_document_count
get_document_count(is_open, c) ==
    IF ~is_open THEN Raise("NotInitialized") ELSE Return(Count(c))

\* VectorStore.add_images; c is the image collection
add_images(is_open, c, images, embeddings) ==
    IF ~is_open THEN Outcome(Raise("NotInitialized"), c)
    ELSE IF Len(images) # Len(embeddings) THEN Outcome(Raise("LengthMismatch"), c)
    ELSE IF images = <<>> THEN Outcome(Return(<<>>), c)
    ELSE IF HasDuplicateIds(Zip(images, embeddings))
         THEN Outcome(Raise("BackendError"), c)
    ELSE Outcome(Return([i \in DOMAIN images |-> images[i].id]),
                 chroma_add(c, Zip(images, embeddings)))

\* VectorStore.search_images
search_images(is_open, c, q, k, where, fault) ==
    IF ~is_open THEN Raise("NotInitialized")
    ELSE IF fault THEN Raise("BackendError")
    ELSE Return(ChromaHits(chroma_query(c, q, k, FilterOf(where)), "image"))

\* VectorStore.remove_image
remove_image(is_open, c, image_id) ==
    IF ~is_open THEN Outcome(Raise("NotInitialized"), c)
    ELSE IF image_id \notin Ids(c) THEN Outcome(Return(FALSE), c)
    ELSE Outcome(Return(TRUE), delete_ids(c, <<image_id>>))

\* x goes behind every hit whose score is not smaller: list.sort(reverse=True)
InsertDesc(sorted, x) ==
    LET n == Cardinality({i \in DOMAIN sorted : GreaterEq(sorted[i].score, x.score)})
    IN  SubSeq(sorted, 1, n) \o <<x>> \o SubSeq(sorted, n + 1, Len(sorted))

RECURSIVE SortDesc(_)
SortDesc(s) ==
    IF s = <<>> THEN <<>> ELSE InsertDesc(SortDesc(PyAllButLast(s)), s[Len(s)])

\* mutant: the weight is not applied
Weighted_ignores_weight(hits, weight) == hits

Weighted(hits, weight) ==
    [i \in DOMAIN hits |-> [hits[i] EXCEPT !.score = Times(@, weight)]]

Reranked(hits) == [i \in DOMAIN hits |-> [hits[i] EXCEPT !.rank = i]]

\* Config.DEFAULT_MULTIMODAL_SEARCH_TEXT_WEIGHT / _IMAGE_WEIGHT
DEFAULT_MULTIMODAL_SEARCH_TEXT_WEIGHT == Frac(1, 2)
DEFAULT_MULTIMODAL_SEARCH_IMAGE_WEIGHT == Frac(1, 2)

WeightOr(weight, default) == IF weight = None THEN default ELSE weight[1]

\* mutant: the weighted lists are concatenated and cut without sorting
Merged_unsorted(text_results, image_results, top_k, text_weight, image_weight) ==
    FirstN(Weighted(text_results, text_weight)
           \o Weighted(image_results, image_weight), top_k)

\* the merge both multimodal searches share: weight, concatenate, stable sort
\* by descending score, keep the first top_k
Merged(text_results, image_results, top_k, text_weight, image_weight) ==
    FirstN(SortDesc(Weighted(text_results, text_weight)
                    \o Weighted(image_results, image_weight)), top_k)

\* mutant: the text hits stay in front of the image hits, no sort by score
search_multimodal_text_first(text, image, top_k, text_weight, image_weight) ==
    LET text_results == IF text.raised = "none" THEN text.value ELSE <<>>
        image_results == IF image.raised = "none" THEN image.value ELSE <<>>
    IN  Return(Reranked(Merged_unsorted(text_results, image_results, top_k,
               WeightOr(text_weight, DEFAULT_MULTIMODAL_SEARCH_TEXT_WEIGHT),
               WeightOr(image_weight, DEFAULT_MULTIMODAL_SEARCH_IMAGE_WEIGHT))))

\* VectorStore.search_multimodal; text and image are the outcomes of
\* self.search and self.search_images: one that raised counts as no hits
search_multimodal(text, image, top_k, text_weight, image_weight) ==
    LET text_results == IF text.raised = "none" THEN text.value ELSE <<>>
        image_results == IF image.raised = "none" THEN image.value ELSE <<>>
    IN  Return(Reranked(Merged(text_results, image_results, top_k,
               WeightOr(text_weight, DEFAULT_MULTIMODAL_SEARCH_TEXT_WEIGHT),
               WeightOr(image_weight, DEFAULT_MULTIMODAL_SEARCH_IMAGE_WEIGHT))))

\* MultimodalRAGEngine.search_multimodal: the same merge over the store's
\* search and search_images, without new ranks; a blank query and a failing
\* query embedding raise
MultimodalRAGEngine_search_multimodal(query, embedOk, text, image, top_k, text_weight, image_weight) ==
    LET text_results == IF text.raised = "none" THEN text.value ELSE <<>>
        image_results == IF image.raised = "none" THEN image.value ELSE <<>>
    IN  IF strip(query) = <<>> THEN Raise("EmptyQuery")
        ELSE IF ~embedOk THEN Raise("RetrievalFailed")
        ELSE Return(Merged(text_results, image_results, top_k,
                    WeightOr(text_weight, DEFAULT_MULTIMODAL_SEARCH_TEXT_WEIGHT),
                    WeightOr(image_weight, DEFAULT_MULTIMODAL_SEARCH_IMAGE_WEIGHT)))

(***************************************************************************)
(* QdrantVectorStore                                                       *)
(***************************************************************************)
QdrantVectorStore_add_documents(is_open, c, chunks, embeddings) ==
    IF ~is_open THEN Outcome(Raise("NotInitialized"), c)
    ELSE IF Len(chunks) # Len(embeddings) THEN Outcome(Raise("LengthMismatch"), c)
    ELSE IF chunks = <<>> THEN Outcome(Return(None), c)
    ELSE Outcome(Return(None), qdrant_upsert(c, Zip(chunks, embeddings)))

\* the score is the cosine similarity as Qdrant reports it
QdrantHits(found) ==
    [i \in DOMAIN found |->
        SearchResult(found[i].rec, Frac(0 - found[i].key, 1), i, "text")]

\* mutant: the hits are handed back without SearchResult's check of the score
QdrantVectorStore_search_unchecked(is_open, c, q, k, where, fault) ==
    IF ~is_open THEN Raise("NotInitialized")
    ELSE IF fault THEN Raise("BackendError")
    ELSE Return(QdrantHits(qdrant_search(c, q, k, FilterOf(where))))

\* `if where:` -- an empty dict is no filter; SearchResult refuses a score
\* outside [0, 1] and the search wraps that as a store error
QdrantVectorStore_search(is_open, c, q, k, where, fault) ==
    LET hits == QdrantHits(qdrant_search(c, q, k, FilterOf(where)))
    IN  IF ~is_open THEN Raise("NotInitialized")
        ELSE IF fault THEN Raise("BackendError")
        ELSE IF \E i \in DOMAIN hits : ~ValidScore(hits[i].score)
             THEN Raise("BackendError")
        ELSE Return(hits)

\* no `where` parameter: a where passed by keyword is swallowed by **kwargs
QdrantVectorStore_delete(is_open, c, document_id, chunk_ids, where) ==
    IF ~is_open THEN Outcome(Raise("NotInitialized"), c)
    ELSE LET after ==
               IF TruthyStr(document_id)
               THEN delete_where(c, {<<"document_id", document_id[1]>>})
               ELSE IF TruthyList(chunk_ids) THEN delete_ids(c, chunk_ids[1])
               ELSE c
         IN  IF ~(TruthyStr(document_id) \/ TruthyList(chunk_ids))
             THEN Outcome(Raise("MissingDeletePredicate"), c)
             ELSE Outcome(Return(Count(c) - Count(after)), after)

\* scroll(limit = limit if limit else count)
QdrantVectorStore_list_documents(is_open, c, limit) ==
    IF ~is_open THEN Raise("NotInitialized")
    ELSE IF Count(c) = 0 THEN Return(<<>>)
    ELSE Return(GroupByDocument(
                  IF Truthy(limit) THEN FirstN(c, limit[1]) ELSE c))

\* qdrant_client scroll(): the page size when the caller gives no limit
DEFAULT_SCROLL_LIMIT == 10

\* client.scroll(scroll_filter, limit): the first page of the matching points
scroll(c, filter, limit) ==
    FirstN(SelectSeq(c, LAMBDA r : Matches(r, filter)), limit)

\* QdrantVectorStore.get_document_by_id: one scroll filtered by document_id,
\* without a limit, then the aggregate of the points it returned
QdrantVectorStore_get_document_by_id(is_open, c, document_id) ==
    LET points == scroll(c, {<<"document_id", document_id>>}, DEFAULT_SCROLL_LIMIT)
    IN  IF ~is_open THEN Raise("NotInitialized")
        ELSE IF points = <<>> THEN Return(None)
        ELSE Return(Some([document_id |-> document_id,
                          chunk_count |-> Len(points),
                          total_size |-> TotalSize(points)]))

\* BaseVectorStore.get_document_by_id: the first entry of list_documents()
\* with that id; listed is what self.list_documents() gave
get_document_by_id(listed, document_id) ==
    LET found == SelectSeq(listed.value, LAMBDA doc : doc.document_id = document_id)
    IN  IF listed.raised # "none" THEN listed
        ELSE IF found = <<>> THEN Return(None)
        ELSE Return(Some(found[1]))

QdrantVectorStore_get_document_count(is_open, c) ==
    IF ~is_open THEN Raise("NotInitialized") ELSE Return(Count(c))

\* mutant: clear reports success and leaves the records where they are
clear_keeps_records(is_open, c) ==
    IF ~is_open THEN Outcome(Raise("NotInitialized"), c)
    ELSE Outcome(Return(None), c)

\* VectorStore.clear / QdrantVectorStore.clear on the store's own collection:
\* nothing to do when it is empty, else it is dropped and created again
clear(is_open, c) ==
    IF ~is_open THEN Outcome(Raise("NotInitialized"), c)
    ELSE IF Count(c) = 0 THEN Outcome(Return(None), c)
    ELSE Outcome(Return(None), <<>>)

(***************************************************************************)
(* utils/config.py: the module-level instance and get_config               *)
(***************************************************************************)
\* the threads that call get_config
ConfigCallers == {"t1", "t2", "t3"}

\* calls of get_config made in a run
MaxConfigCalls == 4

\* the module as imported: _config_instance is None, no Config was made and
\* nobody is inside get_config. Config objects are numbered as they are made.
\* made: the object a caller has constructed and not yet assigned; started,
\* reloads, overlapped and returned are history
NoConfig ==
    [instance |-> <<>>, created |-> 0,
     pc |-> [t \in ConfigCallers |-> "idle"],
     reload |-> [t \in ConfigCallers |-> FALSE],
     made |-> [t \in ConfigCallers |-> <<>>],
     started |-> 0, reloads |-> 0, overlapped |-> FALSE, returned |-> <<>>]

\* a step of get_config changes nothing but the module's state
ConfigStep(new) ==
    /\ config_py' = new
    /\ UNCHANGED <<chat_history, pc, call, result, appended, outcomes, mm,
                   vector_db_type, image_caption_auto_generate, deleting,
                   collection_name, client, collection, existing, db, db_before,
                   op, ret, chunks_count, deleted, was_closed>>

\* get_config(env_file, reload) up to its test: _config_instance is None or reload
GetConfigTest(t, reload) ==
    /\ config_py.pc[t] = "idle"
    /\ config_py.started < MaxConfigCalls
    /\ ConfigStep([config_py EXCEPT
          !.pc[t] = IF config_py.instance = <<>> \/ reload THEN "construct" ELSE "return",
          !.reload[t] = reload,
          !.started = @ + 1,
          !.reloads = IF reload THEN @ + 1 ELSE @,
          !.overlapped = @ \/ \E u \in ConfigCallers \ {t} : config_py.pc[u] # "idle"])

\* Config(env_file): a new object
GetConfigConstruct(t) ==
    /\ config_py.pc[t] = "construct"
    /\ ConfigStep([config_py EXCEPT !.pc[t] = "assign",
                                    !.created = @ + 1,
                                    !.made[t] = <<config_py.created + 1>>])

\* _config_instance = <the new object>
GetConfigAssign(t) ==
    /\ config_py.pc[t] = "assign"
    /\ ConfigStep([config_py EXCEPT !.pc[t] = "return",
                                    !.instance = config_py.made[t],
                                    !.made[t] = <<>>])

\* return _config_instance
GetConfigReturn(t) ==
    /\ config_py.pc[t] = "return"
    /\ ConfigStep([config_py EXCEPT
          !.pc[t] = "idle",
          !.returned = Append(@, [thread |-> t, reload |-> config_py.reload[t],
                                  instance |-> config_py.instance])])

NextConfig ==
    \/ \E t \in ConfigCallers, reload \in BOOLEAN : GetConfigTest(t, reload)
    \/ \E t \in ConfigCallers : GetConfigConstruct(t)
    \/ \E t \in ConfigCallers : GetConfigAssign(t)
    \/ \E t \in ConfigCallers : GetConfigReturn(t)

\* the request handlers that call delete on one store at the same time
Handlers == {"h1", "h2"}

\* delete calls made in a run
MaxDeletes == 2

\* upserts of other handlers in a run
MaxUpserts == 2

\* nobody is inside delete. args, initial_count: the arguments and the local
\* of a handler's call; removed: how many records its backend call took out;
\* disturbed: another handler wrote to the collection while this call ran;
\* started, upserts and finished are history
NoDelete ==
    [pc |-> [h \in Handlers |-> "idle"],
     args |-> [h \in Handlers |-> <<>>],
     initial_count |-> [h \in Handlers |-> 0],
     removed |-> [h \in Handlers |-> 0],
     disturbed |-> [h \in Handlers |-> FALSE],
     started |-> 0, upserts |-> 0, finished |-> <<>>]

(***************************************************************************)
(* The store: state after construction, and one action per method          *)
(***************************************************************************)
Backends == {"chroma", "qdrant"}

\* Config: captions are generated unless IMAGE_CAPTION_AUTO_GENERATE says no
DEFAULT_IMAGE_CAPTION_AUTO_GENERATE == TRUE

\* no multimodal search is in progress
NoFusion == [pc |-> "idle", via |-> "", args |-> <<>>, text |-> Return(<<>>),
             image |-> Return(<<>>), events |-> <<>>]

InitStore ==
    /\ vector_db_type \in Backends
    /\ image_caption_auto_generate = DEFAULT_IMAGE_CAPTION_AUTO_GENERATE
    /\ config_py = NoConfig
    /\ deleting = NoDelete
    /\ collection_name = "documents"
    /\ client = FALSE
    /\ collection = FALSE
    /\ existing = {}
    /\ db = [n \in CollNames |-> <<>>]
    /\ db_before = [n \in CollNames |-> <<>>]
    /\ op = [name |-> "__init__"]
    /\ ret = Return(None)
    /\ chunks_count = [d \in DocIds |-> None]
    /\ deleted = {}
    /\ was_closed = FALSE
    /\ mm = NoFusion

IsChroma == vector_db_type = "chroma"

\* the guard of the text methods: self.collection (Chroma), self.client (Qdrant)
TextOpen == IF IsChroma THEN collection ELSE client

DocRecs(c, d) == SelectSeq(c, LAMBDA r : r.document_id = Some(d))

\* DocumentService.add_document_file stores the chunks create_chunks made of
\* the document and reports chunks_count = len(chunks); the history keeps it
\* while the document stays as that one ingest left it. A batch put together
\* by hand (a chunk id twice) is a store call, not an ingest.
NextChunksCount(o, r, newdocs) ==
    [d \in DocIds |->
        IF /\ o.name = "add_documents" /\ r.raised = "none" /\ o.chunks # <<>>
           /\ o.chunks[1].document_id = Some(d)
        THEN IF /\ DocRecs(db["documents"], d) = <<>>
                /\ o.chunks = Chunks(d, Len(o.chunks))
             THEN Some(Len(o.chunks)) ELSE None
        ELSE IF DocRecs(newdocs, d) = DocRecs(db["documents"], d)
             THEN chunks_count[d] ELSE None]

\* a delete(document_id=d) that returned puts d into the history, an upsert
\* of chunks of d takes it out
NextDeleted(o, r) ==
    LET gone == IF o.name = "delete" /\ r.raised = "none"
                   /\ TruthyStr(o.document_id)
                THEN {o.document_id[1]} ELSE {}
        back == IF o.name = "add_documents" /\ r.raised = "none"
                THEN {d \in DocIds : \E i \in DOMAIN o.chunks :
                                        o.chunks[i].document_id = Some(d)}
                ELSE {}
    IN  (deleted \cup gone) \ back

\* what every method call does to the history variables
Recorded(o, r, newdb) ==
    /\ op' = o
    /\ ret' = r
    /\ db_before' = db
    /\ db' = newdb
    /\ chunks_count' = NextChunksCount(o, r, newdb["documents"])
    /\ deleted' = NextDeleted(o, r)
    /\ UNCHANGED chatVars

\* a method that runs from call to return in one step
Called(o, r, newdb) ==
    /\ Recorded(o, r, newdb)
    /\ UNCHANGED mm

Frame == UNCHANGED <<vector_db_type, image_caption_auto_generate, config_py, deleting, collection_name>>

\* initialize(): connect, get or create the store's own collection
Initialize ==
    /\ client' = TRUE
    /\ collection' = IsChroma
    /\ existing' = existing \cup {collection_name}
    /\ Called([name |-> "initialize"], Return(None), db)
    /\ Frame /\ UNCHANGED was_closed

\* close(): the handles are dropped
Close ==
    /\ client' = FALSE
    /\ collection' = FALSE
    /\ was_closed' = TRUE
    /\ Called([name |-> "close"], Return(None), db)
    /\ Frame /\ UNCHANGED existing

ChunkBatches ==
    {Chunks(d, n) : d \in DocIds, n \in 0..MaxChunks}
        \cup {<<Chunk(d, 0), Chunk(d, 0)>> : d \in {"d1"}}

\* embed_documents: one vector per text; here the i-th text of a batch gets
\* the i-th direction, and the call may hand over m vectors
embed_documents(m) == [i \in 1..m |-> (i - 1) % 2]

EmbeddingLists == {embed_documents(m) : m \in 0..MaxChunks}

\* add_documents on a store that holds at most cap records per collection
AddDocumentsWithin(chunks, embeddings, cap) ==
    LET out == IF IsChroma
               THEN add_documents(TextOpen, db[collection_name], chunks, embeddings)
               ELSE QdrantVectorStore_add_documents(TextOpen, db[collection_name],
                                                    chunks, embeddings)
    IN  /\ Len(out.coll) <= cap
        /\ Called([name |-> "add_documents", chunks |-> chunks,
                   embeddings |-> embeddings],
                  out.ret, [db EXCEPT ![collection_name] = out.coll])
        /\ Frame /\ UNCHANGED <<client, collection, existing, was_closed>>

AddDocuments(chunks, embeddings) == AddDocumentsWithin(chunks, embeddings, MaxStored)

Search(q, k, where, fault) ==
    /\ Called([name |-> "search", query_embedding |-> q, n_results |-> k,
               where |-> where, fault |-> fault],
              IF IsChroma
              THEN search(TextOpen, db[collection_name], q, k, where, fault)
              ELSE QdrantVectorStore_search(TextOpen, db[collection_name], q, k,
                                            where, fault),
              db)
    /\ Frame /\ UNCHANGED <<client, collection, existing, was_closed>>

DeleteArgs ==
    {[document_id |-> x, chunk_ids |-> None, where |-> None] :
        x \in {None, Some("")} \cup {Some(d) : d \in DocIds}}
    \cup {[document_id |-> None, chunk_ids |-> Some(ids), where |-> None] :
            ids \in {<<>>} \cup {<<ChunkId(d, 0)>> : d \in DocIds}}
    \cup {[document_id |-> None, chunk_ids |-> None, where |-> Some(f)] :
            f \in Filters}

Delete(a) ==
    LET out == IF IsChroma
               THEN delete(TextOpen, db[collection_name],
                           a.document_id, a.chunk_ids, a.where)
               ELSE QdrantVectorStore_delete(TextOpen, db[collection_name],
                                             a.document_id, a.chunk_ids, a.where)
    IN  /\ Called([name |-> "delete", document_id |-> a.document_id,
                   chunk_ids |-> a.chunk_ids, where |-> a.where],
                  out.ret, [db EXCEPT ![collection_name] = out.coll])
        /\ Frame /\ UNCHANGED <<client, collection, existing, was_closed>>

ListDocuments(limit) ==
    /\ Called([name |-> "list_documents", limit |-> limit],
              IF IsChroma
              THEN list_documents(TextOpen, db[collection_name], limit)
              ELSE QdrantVectorStore_list_documents(TextOpen, db[collection_name],
                                                    limit),
              db)
    /\ Frame /\ UNCHANGED <<client, collection, existing, was_closed>>

\* get_document_by_id: Qdrant has its own, the Chroma store the inherited one
GetDocumentById(document_id) ==
    /\ Called([name |-> "get_document_by_id", document_id |-> document_id],
              IF IsChroma
              THEN get_document_by_id(
                       list_documents(TextOpen, db[collection_name], None),
                       document_id)
              ELSE QdrantVectorStore_get_document_by_id(
                       TextOpen, db[collection_name], document_id),
              db)
    /\ Frame /\ UNCHANGED <<client, collection, existing, was_closed>>

GetDocumentCount ==
    /\ Called([name |-> "get_document_count"],
              IF IsChroma
              THEN get_document_count(TextOpen, db[collection_name])
              ELSE QdrantVectorStore_get_document_count(TextOpen,
                                                        db[collection_name]),
              db)
    /\ Frame /\ UNCHANGED <<client, collection, existing, was_closed>>

Clear ==
    LET out == clear(TextOpen, db[collection_name])
    IN  /\ Called([name |-> "clear"], out.ret,
                  [db EXCEPT ![collection_name] = out.coll])
        /\ Frame /\ UNCHANGED <<client, collection, existing, was_closed>>

ImageBatches ==
    {<<>>, <<ImageDocument(<<"i1">>)>>, <<ImageDocument(<<"i2">>)>>,
     <<ImageDocument(<<"i1">>), ImageDocument(<<"i2">>)>>}

\* BaseVectorStore: the image methods and search_multimodal of a store that
\* does not override them
NotImplemented == Raise("NotImplementedError")

AddImages(images, embeddings) ==
    LET out == IF IsChroma
               THEN add_images(client, db["images"], images, embeddings)
               ELSE Outcome(NotImplemented, db["images"])
        reached == IsChroma /\ client /\ Len(images) = Len(embeddings)
                   /\ images # <<>>
    IN  /\ Len(out.coll) <= MaxStored
        /\ Called([name |-> "add_images", images |-> images,
                   embeddings |-> embeddings],
                  out.ret, [db EXCEPT !["images"] = out.coll])
        /\ existing' = IF reached THEN existing \cup {"images"} ELSE existing
        /\ Frame /\ UNCHANGED <<client, collection, was_closed>>

SearchImages(q, k, fault) ==
    /\ Called([name |-> "search_images", query_embedding |-> q, top_k |-> k,
               fault |-> fault],
              IF IsChroma
              THEN search_images(client, db["images"], q, k, None, fault)
              ELSE NotImplemented,
              db)
    /\ existing' = IF IsChroma /\ client THEN existing \cup {"images"} ELSE existing
    /\ Frame /\ UNCHANGED <<client, collection, was_closed>>

RemoveImage(image_id) ==
    LET out == IF IsChroma
               THEN remove_image(client, db["images"], image_id)
               ELSE Outcome(NotImplemented, db["images"])
    IN  /\ Called([name |-> "remove_image", image_id |-> image_id],
                  out.ret, [db EXCEPT !["images"] = out.coll])
        /\ existing' = IF IsChroma /\ client THEN existing \cup {"images"}
                       ELSE existing
        /\ Frame /\ UNCHANGED <<client, collection, was_closed>>

Weights == {None, Some(Frac(0, 1)), Some(Frac(1, 1))}
WeightPairs == {<<None, None>>, <<Some(Frac(1, 1)), Some(Frac(0, 1))>>,
                <<Some(Frac(0, 1)), Some(Frac(1, 1))>>}

\* the two searches a multimodal search makes, each with its own outcome
TextSearch(q, k, fault) ==
    IF IsChroma THEN search(TextOpen, db[collection_name], q, k, None, fault)
    ELSE QdrantVectorStore_search(TextOpen, db[collection_name], q, k, None, fault)

ImageSearch(q, k, fault) ==
    IF IsChroma THEN search_images(client, db["images"], q, k, None, fault)
    ELSE NotImplemented

SearchMultimodal(q, k, w, faultText, faultImage) ==
    LET text == TextSearch(q, k, faultText)
        image == ImageSearch(q, k, faultImage)
    IN  /\ Called([name |-> "search_multimodal", query_embedding |-> q,
                   top_k |-> k, text_weight |-> w[1], image_weight |-> w[2],
                   text_raised |-> text.raised # "none",
                   image_raised |-> image.raised # "none"],
                  IF IsChroma THEN search_multimodal(text, image, k, w[1], w[2])
                  ELSE NotImplemented,
                  db)
        /\ existing' = IF IsChroma /\ client THEN existing \cup {"images"}
                       ELSE existing
        /\ Frame /\ UNCHANGED <<client, collection, was_closed>>

\* MultimodalRAGEngine.search_multimodal over this store
EngineSearchMultimodal(query, embedOk, q, k, w, faultText, faultImage) ==
    LET ran == strip(query) # <<>> /\ embedOk
        text == TextSearch(q, k, faultText)
        image == ImageSearch(q, k, faultImage)
    IN  /\ Called([name |-> "engine.search_multimodal", query |-> query,
                   top_k |-> k, text_weight |-> w[1], image_weight |-> w[2],
                   text_raised |-> ran /\ text.raised # "none",
                   image_raised |-> ran /\ image.raised # "none"],
                  MultimodalRAGEngine_search_multimodal(query, embedOk, text,
                                                        image, k, w[1], w[2]),
                  db)
        /\ existing' = IF ran /\ IsChroma /\ client THEN existing \cup {"images"}
                       ELSE existing
        /\ Frame /\ UNCHANGED <<client, collection, was_closed>>

Limits == {None, Some(0), Some(1)}

\* query vectors: those of the stored records and the one opposite to the first
Queries == Vecs \cup {2}

SearchFilters == {None, Some({<<"document_id", "d1">>})}

\* a search without faults under every weighting, and every combination of
\* failing searches under the default weighting
MultimodalArgs ==
    {[q |-> q, k |-> k, w |-> w, faultText |-> FALSE, faultImage |-> FALSE] :
        q \in Vecs, k \in 1..MaxK, w \in WeightPairs}
    \cup {[q |-> 0, k |-> MaxK, w |-> <<None, None>>,
           faultText |-> ft, faultImage |-> fi] : ft, fi \in BOOLEAN}

(***************************************************************************)
(* A multimodal search statement by statement: VectorStore.search_multimodal *)
(* (via = "store") and MultimodalRAGEngine.search_multimodal (via =         *)
(* "engine") call search, wait for it, call search_images, wait for it,     *)
(* then merge. Other callers may use the store in between.                  *)
(***************************************************************************)
FusionOp(via, a, text_raised, image_raised) ==
    IF via = "store"
    THEN [name |-> "search_multimodal", query_embedding |-> a.q, top_k |-> a.k,
          text_weight |-> a.w[1], image_weight |-> a.w[2],
          text_raised |-> text_raised, image_raised |-> image_raised]
    ELSE [name |-> "engine.search_multimodal", query |-> a.query, top_k |-> a.k,
          text_weight |-> a.w[1], image_weight |-> a.w[2],
          text_raised |-> text_raised, image_raised |-> image_raised]

\* entry: the guards in front of the first search
FusionCall(via, a, embedOk) ==
    LET early == IF via = "store"
                 THEN IF IsChroma THEN Return(None) ELSE NotImplemented
                 ELSE IF strip(a.query) = <<>> THEN Raise("EmptyQuery")
                 ELSE IF ~embedOk THEN Raise("RetrievalFailed")
                 ELSE Return(None)
    IN  /\ mm.pc = "idle"
        /\ IF early.raised # "none"
           THEN /\ Recorded(FusionOp(via, a, FALSE, FALSE), early, db)
                /\ mm' = NoFusion
                /\ UNCHANGED <<vector_db_type, image_caption_auto_generate, config_py, deleting, collection_name, client,
                               collection, existing, was_closed>>
           ELSE /\ mm' = [NoFusion EXCEPT !.pc = "call_search", !.via = via,
                                          !.args = a]
                /\ UNCHANGED <<storeState, chatVars>>

\* self.search(...) is called
FusionSearchStarts ==
    /\ mm.pc = "call_search"
    /\ mm' = [mm EXCEPT !.pc = "in_search",
                        !.events = Append(@, "text_start")]
    /\ UNCHANGED <<storeState, chatVars>>

\* self.search(...) returns or raises; the except clause goes on either way
FusionSearchEnds(fault) ==
    /\ mm.pc = "in_search"
    /\ mm' = [mm EXCEPT !.pc = "call_search_images",
                        !.text = TextSearch(mm.args.q, mm.args.k, fault),
                        !.events = Append(@, "text_end")]
    /\ UNCHANGED <<storeState, chatVars>>

\* self.search_images(...) is called
FusionSearchImagesStarts ==
    /\ mm.pc = "call_search_images"
    /\ mm' = [mm EXCEPT !.pc = "in_search_images",
                        !.events = Append(@, "image_start")]
    /\ UNCHANGED <<storeState, chatVars>>

\* self.search_images(...) returns or raises
FusionSearchImagesEnds(fault) ==
    /\ mm.pc = "in_search_images"
    /\ mm' = [mm EXCEPT !.pc = "merge",
                        !.image = ImageSearch(mm.args.q, mm.args.k, fault),
                        !.events = Append(@, "image_end")]
    /\ existing' = IF IsChroma /\ client THEN existing \cup {"images"}
                   ELSE existing
    /\ UNCHANGED <<vector_db_type, image_caption_auto_generate, config_py, deleting, collection_name, client, collection, db,
                   db_before, op, ret, chunks_count, deleted, was_closed>>
    /\ UNCHANGED chatVars

\* weight, merge, sort, cut, return
FusionReturn ==
    /\ mm.pc = "merge"
    /\ Recorded(FusionOp(mm.via, mm.args, mm.text.raised # "none",
                         mm.image.raised # "none"),
                IF mm.via = "store"
                THEN search_multimodal(mm.text, mm.image, mm.args.k,
                                       mm.args.w[1], mm.args.w[2])
                ELSE MultimodalRAGEngine_search_multimodal(
                         mm.args.query, TRUE, mm.text, mm.image, mm.args.k,
                         mm.args.w[1], mm.args.w[2]),
                db)
    /\ mm' = [mm EXCEPT !.pc = "idle"]
    /\ UNCHANGED <<vector_db_type, image_caption_auto_generate, config_py, deleting, collection_name,
                   client, collection, existing, was_closed>>

\* the calls a multimodal search is made with
FusionArgs ==
    {[query |-> query, q |-> q, k |-> MaxK, w |-> <<None, None>>] :
        query \in {<<"a">>, <<" ">>}, q \in Vecs}

\* the text methods of a store holding the chunks of several documents; every
\* batch comes with one vector per chunk, as DocumentService.add_document_file
\* hands it over
NextStore ==
    \/ Initialize
    \/ \E chunks \in ChunkBatches :
          AddDocuments(chunks, embed_documents(Len(chunks)))
    \/ \E q \in Vecs, k \in {1, MaxK}, where \in SearchFilters :
          Search(q, k, where, FALSE)
    \/ \E a \in DeleteArgs : Delete(a)
    \/ \E limit \in Limits : ListDocuments(limit)
    \/ GetDocumentCount
    \/ Clear

\* every method of a store holding the chunks of one document and images
NextMultimodal ==
    \/ Initialize
    \/ Close
    \/ \E n \in 0..MaxChunks, embeddings \in EmbeddingLists :
          AddDocuments(Chunks("d1", n), embeddings)
    \/ \E q \in Queries : Search(q, MaxK, None, FALSE)
    \/ Delete([document_id |-> Some("d1"), chunk_ids |-> None, where |-> None])
    \/ ListDocuments(None)
    \/ GetDocumentCount
    \/ Clear
    \/ \E images \in ImageBatches, embeddings \in EmbeddingLists :
          AddImages(images, embeddings)
    \/ \E q \in Vecs, k \in 1..MaxK : SearchImages(q, k, FALSE)
    \/ \E i \in ImageIds : RemoveImage(i)
    \/ \E a \in MultimodalArgs :
          SearchMultimodal(a.q, a.k, a.w, a.faultText, a.faultImage)
    \/ \E a \in MultimodalArgs, query \in {<<"a">>} :
          EngineSearchMultimodal(query, TRUE, a.q, a.k, a.w, a.faultText, a.faultImage)
    \/ \E query \in {<<>>, <<" ">>}, embedOk \in BOOLEAN :
          EngineSearchMultimodal(IF embedOk THEN query ELSE <<"a">>, embedOk,
                                 0, MaxK, <<None, None>>, FALSE, FALSE)

\* no chat is in progress while the store is exercised
NoChat ==
    /\ chat_history = [messages |-> <<>>, max_messages |-> None]
    /\ pc = [t \in Threads |-> "idle"]
    /\ call = [t \in Threads |-> NoCall]
    /\ result = [t \in Threads |-> NoResult]
    /\ appended = <<>>
    /\ outcomes = <<>>

\* no store call is made while the chat log is exercised: the store stays
\* as constructed
IdleStore ==
    /\ vector_db_type = "chroma"
    /\ image_caption_auto_generate = DEFAULT_IMAGE_CAPTION_AUTO_GENERATE
    /\ config_py = NoConfig
    /\ deleting = NoDelete
    /\ collection_name = "documents"
    /\ client = FALSE
    /\ collection = FALSE
    /\ existing = {}
    /\ db = [n \in CollNames |-> <<>>]
    /\ db_before = [n \in CollNames |-> <<>>]
    /\ op = [name |-> "__init__"]
    /\ ret = Return(None)
    /\ chunks_count = [d \in DocIds |-> None]
    /\ deleted = {}
    /\ was_closed = FALSE
    /\ mm = NoFusion

InitChatOnly == InitChat /\ IdleStore

InitStoreOnly == InitStore /\ NoChat

\* the module as imported; no engine and no store is used
InitConfigOnly == IdleStore /\ NoChat

SpecConfig == InitConfigOnly /\ [][NextConfig]_vars

\* RAGEngine.chat called by one caller at a time
NextChat ==
    \/ \E t \in Threads, message \in Messages :
          Idle /\ ChatStart(t, message) /\ UNCHANGED storeVars
    \/ \E t \in Threads, backendOk \in BOOLEAN :
          ChatRetrieve(t, backendOk) /\ UNCHANGED storeVars
    \/ \E t \in Threads : ChatBuildPrompt(t) /\ UNCHANGED storeVars
    \/ \E t \in Threads, llmOk \in BOOLEAN, answer \in Answers :
          ChatGenerate(t, llmOk, answer) /\ UNCHANGED storeVars
    \/ clear_chat_history /\ UNCHANGED storeVars

SpecChat == InitChatOnly /\ [][NextChat]_vars

\* two request handlers that call chat on the same engine
Callers == {"t1", "t2"}

\* the engine as created, with no cap or a cap that holds two turns
InitSharedChat ==
    /\ \E cap \in {None, Some(MaxCap)} :
          chat_history = [messages |-> <<>>, max_messages |-> cap]
    /\ pc = [t \in Callers |-> "idle"]
    /\ call = [t \in Callers |-> NoCall]
    /\ result = [t \in Callers |-> NoResult]
    /\ appended = <<>>
    /\ outcomes = <<>>
    /\ IdleStore

\* RAGEngine.chat called by both handlers with nothing that keeps one call
\* from starting while the other is between two of its steps
NextSharedChat ==
    \/ \E t \in Callers, message \in Messages :
          ChatStart(t, message) /\ UNCHANGED storeVars
    \/ \E t \in Callers, backendOk \in BOOLEAN :
          ChatRetrieve(t, backendOk) /\ UNCHANGED storeVars
    \/ \E t \in Callers : ChatBuildPrompt(t) /\ UNCHANGED storeVars
    \/ \E t \in Callers, llmOk \in BOOLEAN, answer \in Answers :
          ChatGenerate(t, llmOk, answer) /\ UNCHANGED storeVars

SpecSharedChat == InitSharedChat /\ [][NextSharedChat]_vars

SpecStore == InitStoreOnly /\ [][NextStore]_vars

SpecMultimodal == InitStoreOnly /\ [][NextMultimodal]_vars

\* multimodal searches, one at a time, on a store other callers write to
NextFusion ==
    \/ Initialize
    \/ \E n \in 1..MaxChunks : AddDocuments(Chunks("d1", n), embed_documents(n))
    \/ AddImages(<<ImageDocument(<<"i1">>)>>, embed_documents(1))
    \/ \E via \in {"store", "engine"}, a \in FusionArgs, embedOk \in BOOLEAN :
          FusionCall(via, a, embedOk)
    \/ FusionSearchStarts
    \/ \E fault \in BOOLEAN : FusionSearchEnds(fault)
    \/ FusionSearchImagesStarts
    \/ \E fault \in BOOLEAN : FusionSearchImagesEnds(fault)
    \/ FusionReturn

SpecFusion == InitStoreOnly /\ [][NextFusion]_vars

\* documents of one chunk, of a few chunks and of more chunks than a scroll
\* page holds are ingested, listed, looked up by id and deleted
DocumentLengths == {1, MaxChunks, MaxScrolled}

NextRoundTrip ==
    \/ Initialize
    \/ \E d \in DocIds, n \in DocumentLengths :
          AddDocumentsWithin(Chunks(d, n), embed_documents(n),
                             MaxScrolled + MaxChunks)
    \/ \E d \in DocIds :
          Delete([document_id |-> Some(d), chunk_ids |-> None, where |-> None])
    \/ ListDocuments(None)
    \/ \E d \in DocIds \cup {"x"} : GetDocumentById(d)
    \/ Clear

SpecRoundTrip == InitStoreOnly /\ [][NextRoundTrip]_vars

(***************************************************************************)
(* DocumentService: files, routing by extension, captions, removal         *)
(***************************************************************************)
\* text is a sequence of one-character strings
UPPERCASE == <<"A", "B", "C", "D", "E", "F", "G", "H", "I", "J", "K", "L", "M",
               "N", "O", "P", "Q", "R", "S", "T", "U", "V", "W", "X", "Y", "Z">>
LOWERCASE == <<"a", "b", "c", "d", "e", "f", "g", "h", "i", "j", "k", "l", "m",
               "n", "o", "p", "q", "r", "s", "t", "u", "v", "w", "x", "y", "z">>

\* the lower-case letter of every upper-case letter
ToLower ==
    [ch \in {UPPERCASE[k] : k \in DOMAIN UPPERCASE} |->
        LOWERCASE[CHOOSE k \in DOMAIN UPPERCASE : UPPERCASE[k] = ch]]

\* str.lower()
lower(s) == [i \in DOMAIN s |-> IF s[i] \in DOMAIN ToLower THEN ToLower[s[i]] ELSE s[i]]

\* str.rfind('.'), counted from 1; 0 when there is no dot
rfind_dot(s) ==
    IF \E i \in DOMAIN s : s[i] = "."
    THEN CHOOSE i \in DOMAIN s : s[i] = "." /\ \A j \in DOMAIN s : s[j] = "." => j <= i
    ELSE 0

\* Path(file_path).suffix of a file name: from the last dot on, unless that
\* dot is the first or the last character of the name
suffix(name) ==
    IF 1 < rfind_dot(name) /\ rfind_dot(name) < Len(name)
    THEN SubSeq(name, rfind_dot(name), Len(name))
    ELSE <<>>

\* file_utils.IMAGE_EXTENSIONS
IMAGE_EXTENSIONS ==
    {<<".", "j", "p", "g">>, <<".", "j", "p", "e", "g">>, <<".", "p", "n", "g">>,
     <<".", "g", "i", "f">>, <<".", "b", "m", "p">>, <<".", "w", "e", "b", "p">>,
     <<".", "t", "i", "f", "f">>, <<".", "t", "i", "f">>}

\* mutant: the suffix is compared as written
is_image_file_as_written(name) == suffix(name) \in IMAGE_EXTENSIONS

\* file_utils.is_image_file
is_image_file(name) == lower(suffix(name)) \in IMAGE_EXTENSIONS

\* ImageProcessor.SUPPORTED_EXTENSIONS
ImageProcessor_SUPPORTED_EXTENSIONS ==
    {<<".", "j", "p", "g">>, <<".", "j", "p", "e", "g">>, <<".", "p", "n", "g">>,
     <<".", "g", "i", "f">>, <<".", "b", "m", "p">>, <<".", "w", "e", "b", "p">>}

\* DocumentProcessor.SUPPORTED_EXTENSIONS
DocumentProcessor_SUPPORTED_EXTENSIONS ==
    {<<".", "t", "x", "t">>, <<".", "m", "d">>, <<".", "p", "d", "f">>}

\* a path as the service sees it: the name of its last component, whether it
\* exists, whether it is a directory, whether it is larger than
\* Config.max_image_size_mb, and the number of chunks split_text makes of it
File(name, exists, is_dir, oversize) ==
    [name |-> name, exists |-> exists, is_dir |-> is_dir, oversize |-> oversize,
     chunks |-> 1]

\* truthiness of an Optional[str] whose text is a sequence of characters
TruthyText(o) == o # None /\ o[1] # <<>>

\* mutant: the model's answer is taken as it comes
generate_caption_unchecked(response) ==
    IF response.raised # "none" THEN Raise("VisionEmbeddingError")
    ELSE Return(strip(response.value))

\* VisionEmbeddings.generate_caption; response: what the vision model answers
generate_caption(response) ==
    IF response.raised # "none" THEN Raise("VisionEmbeddingError")
    ELSE IF strip(response.value) = <<>> THEN Raise("VisionEmbeddingError")
    ELSE Return(strip(response.value))

\* ImageProcessor.validate_image
validate_image(file) ==
    IF ~file.exists THEN Raise("FileNotFoundError")
    ELSE IF file.is_dir THEN Raise("ImageProcessorError")
    ELSE IF lower(suffix(file.name)) \notin ImageProcessor_SUPPORTED_EXTENSIONS
         THEN Raise("UnsupportedImageTypeError")
    ELSE IF file.oversize THEN Raise("ImageProcessorError")
    ELSE Return(TRUE)

\* the f-string "Image: {file_name}"
FallbackCaption(file_name) == <<"I", "m", "a", "g", "e", ":", " ">> \o file_name

\* ImageProcessor.load_image with auto_caption=None: the caller's caption if
\* truthy, else a generated one if the configuration says so, else the
\* fallback; every exception after the validation becomes ImageProcessorError
load_image(file, caption, auto_generate, response, image_id) ==
    LET final_caption ==
            IF TruthyText(caption) THEN Return(caption[1])
            ELSE IF auto_generate THEN generate_caption(response)
            ELSE Return(FallbackCaption(file.name))
    IN  IF validate_image(file).raised # "none" THEN validate_image(file)
        ELSE IF final_caption.raised # "none" THEN Raise("ImageProcessorError")
        ELSE Return([id |-> image_id, document_id |-> None,
                     caption |-> final_caption.value])

\* a result dict of the service that reports a failure
Failure(error) == [success |-> FALSE, error |-> error]

\* what a service method returns or raises, and the two collections after it
ServiceOutcome(r, docs, imgs) == [ret |-> r, docs |-> docs, imgs |-> imgs]

\* client.embeddings(model, prompt): the vector of a text; here every text
\* has a vector of its own
embed_text(prompt) == <<"embedding", prompt>>

\* VisionEmbeddings.embed_image: the vision model is asked to describe the
\* image, and its description is embedded as text. vision.description: what
\* the vision model answers to that prompt; vision.embedding: whether the
\* embedding call answers
embed_image(file, vision) ==
    IF ~file.exists THEN Raise("ValueError")
    ELSE IF vision.description.raised # "none" THEN Raise("VisionEmbeddingError")
    ELSE IF strip(vision.description.value) = <<>> THEN Raise("VisionEmbeddingError")
    ELSE IF vision.embedding.raised # "none" THEN Raise("VisionEmbeddingError")
    ELSE Return(embed_text(strip(vision.description.value)))

\* DocumentService.add_image_file; vision: what the vision model answers
\* when asked for a caption and when asked for a description, and whether
\* the embedding call answers
add_image_file(is_chroma, is_open, imgs, file, caption, auto_generate, vision, image_id) ==
    LET image == load_image(file, caption, auto_generate, vision.caption, image_id)
        embedding == embed_image(file, vision)
        stored == IF is_chroma
                  THEN add_images(is_open, imgs, <<image.value>>, <<embedding.value>>)
                  ELSE Outcome(NotImplemented, imgs)
    IN  IF image.raised \in {"ImageProcessorError", "UnsupportedImageTypeError"}
        THEN Outcome(image, imgs)
        ELSE IF image.raised # "none" THEN Outcome(Raise("DocumentServiceError"), imgs)
        ELSE IF embedding.raised # "none"
             THEN Outcome(Raise("VisionEmbeddingError"), imgs)
        ELSE IF stored.ret.raised # "none"
             THEN Outcome(Raise("DocumentServiceError"), imgs)
        ELSE Outcome(Return([success |-> TRUE, image_id |-> image_id,
                             caption |-> image.value.caption]),
                     stored.coll)

\* DocumentProcessor.process_document: load_document, then create_chunks
process_document(file, document_id, generated_id) ==
    IF ~file.exists \/ file.is_dir THEN Raise("DocumentProcessorError")
    ELSE IF lower(suffix(file.name)) \notin DocumentProcessor_SUPPORTED_EXTENSIONS
         THEN Raise("UnsupportedFileTypeError")
    ELSE Return(Chunks(IF document_id = None THEN generated_id ELSE document_id[1],
                       file.chunks))

\* DocumentService.add_document_file
add_document_file(is_chroma, is_open, docs, file, document_id, generated_id, embedOk) ==
    LET chunks == process_document(file, document_id, generated_id)
        stored == IF is_chroma
                  THEN add_documents(is_open, docs, chunks.value,
                                     embed_documents(Len(chunks.value)))
                  ELSE QdrantVectorStore_add_documents(is_open, docs, chunks.value,
                                     embed_documents(Len(chunks.value)))
    IN  IF chunks.raised # "none" THEN Outcome(chunks, docs)
        ELSE IF ~embedOk THEN Outcome(Raise("DocumentServiceError"), docs)
        ELSE IF stored.ret.raised # "none"
             THEN Outcome(Raise("DocumentServiceError"), docs)
        ELSE Outcome(Return([success |-> TRUE,
                             document_id |-> chunks.value[1].document_id[1],
                             chunks_count |-> Len(chunks.value)]),
                     stored.coll)

\* the ingestion path add_file hands the file to
Route(file) ==
    IF ~file.exists \/ file.is_dir THEN "none"
    ELSE IF is_image_file(file.name) THEN "image" ELSE "text"

\* DocumentService.add_file: every exception of the path taken becomes a
\* failure dict
add_file(is_chroma, docs_open, imgs_open, docs, imgs, auto_generate, a) ==
    LET image == add_image_file(is_chroma, imgs_open, imgs, a.file, a.caption,
                                auto_generate, a.vision, a.image_id)
        text == add_document_file(is_chroma, docs_open, docs, a.file, a.document_id,
                                  a.generated_id, a.embedOk)
        Dict(r) == IF r.raised = "none" THEN r ELSE Return(Failure(r.raised))
    IN  IF ~a.file.exists THEN ServiceOutcome(Return(Failure("FileNotFoundError")), docs, imgs)
        ELSE IF a.file.is_dir
             THEN ServiceOutcome(Return(Failure("DirectoryNotSupported")), docs, imgs)
        ELSE IF Route(a.file) = "image"
             THEN ServiceOutcome(Dict(image.ret), docs, image.coll)
        ELSE ServiceOutcome(Dict(text.ret), text.coll, imgs)

\* VectorStore.get_image_by_id; c is the image collection
get_image_by_id(is_open, c, image_id) ==
    IF ~is_open THEN Raise("NotInitialized")
    ELSE IF image_id \notin Ids(c) THEN Return(None)
    ELSE Return(Some(c[CHOOSE i \in DOMAIN c : c[i].id = image_id]))

\* the id a stored image has for the item id the caller names
ImageIdOf(item_id) == <<item_id>>

\* mutant: the images are looked at before the documents
remove_document_images_first(is_chroma, docs_open, imgs_open, docs, imgs, item_id, item_type, fault) ==
    LET removed == remove_image(imgs_open, imgs, ImageIdOf(item_id))
        gone == delete(docs_open, docs, Some(item_id), None, None)
    IN  IF is_chroma /\ item_type \in {"image", "auto"} /\ removed.ret = Return(TRUE)
        THEN ServiceOutcome(Return([success |-> TRUE, item_type |-> "image",
                                    item_id |-> item_id]), docs, removed.coll)
        ELSE IF item_type \in {"document", "auto"} /\ DocRecs(docs, item_id) # <<>>
             THEN ServiceOutcome(Return([success |-> TRUE, item_type |-> "document",
                                         item_id |-> item_id,
                                         deleted_chunks |-> gone.ret.value]),
                                 gone.coll, imgs)
        ELSE ServiceOutcome(Return(Failure("NotFound")), docs, imgs)

\* DocumentService.remove_document; fault: the backend call that fails
remove_document(is_chroma, docs_open, imgs_open, docs, imgs, item_id, item_type, fault) ==
    LET listed == IF fault = "list" THEN Raise("BackendError")
                  ELSE IF is_chroma THEN list_documents(docs_open, docs, None)
                  ELSE QdrantVectorStore_list_documents(docs_open, docs, None)
        target_doc == /\ listed.raised = "none"
                      /\ \E i \in DOMAIN listed.value :
                            listed.value[i].document_id = item_id
        gone == IF fault = "delete" THEN Outcome(Raise("BackendError"), docs)
                ELSE IF is_chroma THEN delete(docs_open, docs, Some(item_id), None, None)
                ELSE QdrantVectorStore_delete(docs_open, docs, Some(item_id), None, None)
        doc_error == listed.raised # "none" \/ (target_doc /\ gone.ret.raised # "none")
        image == IF ~is_chroma THEN NotImplemented
                 ELSE IF fault = "get" THEN Raise("BackendError")
                 ELSE get_image_by_id(imgs_open, imgs, ImageIdOf(item_id))
        removed == remove_image(imgs_open, imgs, ImageIdOf(item_id))
        NotFound == ServiceOutcome(Return(Failure("NotFound")), docs, imgs)
        ImageError == IF item_type = "image"
                      THEN ServiceOutcome(Return(Failure("VectorStoreError")), docs, imgs)
                      ELSE NotFound
        AsImage ==
            IF item_type \notin {"image", "auto"} THEN NotFound
            ELSE IF image.raised = "NotImplementedError"
                 THEN ServiceOutcome(Return(Failure("NotImplementedError")), docs, imgs)
            ELSE IF image.raised # "none" THEN ImageError
            ELSE IF image.value = None THEN NotFound
            ELSE IF removed.ret.raised # "none" THEN ImageError
            ELSE IF removed.ret.value
                 THEN ServiceOutcome(Return([success |-> TRUE, item_type |-> "image",
                                             item_id |-> item_id]), docs, removed.coll)
            ELSE ServiceOutcome(Return(Failure("DeleteFailed")), docs, imgs)
    IN  IF item_type \in {"document", "auto"} /\ ~doc_error /\ target_doc
        THEN ServiceOutcome(Return([success |-> TRUE, item_type |-> "document",
                                    item_id |-> item_id,
                                    deleted_chunks |-> gone.ret.value]),
                            gone.coll, imgs)
        ELSE IF item_type = "document" /\ doc_error
             THEN ServiceOutcome(Return(Failure("VectorStoreError")), docs, imgs)
        ELSE AsImage

\* the state after DocumentService.__init__: both stores are created by the
\* factory and initialized, one on "documents" and one on "images"
InitService ==
    /\ vector_db_type \in Backends
    /\ image_caption_auto_generate \in BOOLEAN
    /\ config_py = NoConfig
    /\ deleting = NoDelete
    /\ collection_name = "documents"
    /\ client = TRUE
    /\ collection = (vector_db_type = "chroma")
    /\ existing = CollNames
    /\ db = [n \in CollNames |-> <<>>]
    /\ db_before = [n \in CollNames |-> <<>>]
    /\ op = [name |-> "DocumentService.__init__"]
    /\ ret = Return(None)
    /\ chunks_count = [d \in DocIds |-> None]
    /\ deleted = {}
    /\ was_closed = FALSE
    /\ mm = NoFusion

\* the collections as a service method leaves them
After(out) == [db EXCEPT !["documents"] = out.docs, !["images"] = out.imgs]

\* add_file(file_path, document_id, caption); the ids generated are new
AddFile(a) ==
    LET out == add_file(IsChroma, TextOpen, client, db["documents"], db["images"],
                        image_caption_auto_generate, a)
    IN  /\ Route(a.file) = "image" => a.image_id \notin Ids(db["images"])
        /\ Route(a.file) = "text" => DocRecs(db["documents"], a.generated_id) = <<>>
        /\ Called([name |-> "add_file", file |-> a.file,
                   document_id |-> a.document_id, caption |-> a.caption,
                   vision |-> a.vision, image_id |-> a.image_id,
                   route |-> Route(a.file)],
                  out.ret, After(out))
        /\ Frame /\ UNCHANGED <<client, collection, existing, was_closed>>

\* remove_document(item_id, item_type)
RemoveDocument(item_id, item_type, fault) ==
    LET out == remove_document(IsChroma, TextOpen, client, db["documents"],
                               db["images"], item_id, item_type, fault)
    IN  /\ Called([name |-> "remove_document", item_id |-> item_id,
                   item_type |-> item_type, fault |-> fault],
                  out.ret, After(out))
        /\ Frame /\ UNCHANGED <<client, collection, existing, was_closed>>

\* what the vision model does for one image: its caption, its description;
\* Working: both calls succeed
Working == [caption |-> Return(<<"g">>), description |-> Return(<<"v">>),
            embedding |-> Return(None)]

\* the vision model works; its caption is blank; it fails; the embedding
\* call fails; the description is blank; the description is the caption
VisionAnswers ==
    {Working,
     [Working EXCEPT !.caption = Return(<<" ">>)],
     [Working EXCEPT !.caption = Raise("BackendError")],
     [Working EXCEPT !.embedding = Raise("BackendError")],
     [Working EXCEPT !.description = Return(<<" ">>)],
     [Working EXCEPT !.description = Return(<<"g">>)]}

\* the captions add_file is called with: none, empty, a word
Captions == {None, Some(<<>>), Some(<<"c">>)}

\* a.png, b.gif (too large), a.txt, a missing file and a directory
ServiceFiles ==
    {File(<<"a", ".", "p", "n", "g">>, TRUE, FALSE, FALSE),
     File(<<"b", ".", "g", "i", "f">>, TRUE, FALSE, TRUE),
     File(<<"a", ".", "t", "x", "t">>, TRUE, FALSE, FALSE),
     File(<<"m", ".", "p", "n", "g">>, FALSE, FALSE, FALSE),
     File(<<"d">>, TRUE, TRUE, FALSE)}

\* the item ids the service is called with: of a document, of an image (a
\* document may be ingested under the same id), of nothing
ItemIds == {"d1", "i1", "x"}

\* the calls of add_file over the files F: the arguments the path taken does
\* not read are left at their defaults, and the vision model fails only
\* where its caption is asked for
AddFileArgs(F) ==
    {[file |-> f, document_id |-> None, caption |-> cv[1], vision |-> cv[2],
      image_id |-> i, generated_id |-> "d1", embedOk |-> TRUE] :
        f \in {g \in F : Route(g) = "image"},
        cv \in (Captions \X {Working}) \cup ({None} \X VisionAnswers),
        i \in ImageIds}
    \cup
    {[file |-> f, document_id |-> d, caption |-> None,
      vision |-> Working, image_id |-> <<"i1">>,
      generated_id |-> IF d = None THEN "d1" ELSE "d2", embedOk |-> e] :
        f \in {g \in F : Route(g) # "image"}, d \in {None, Some("i1")},
        e \in BOOLEAN}

\* the item types remove_document is called with, and the backend call that
\* fails while it looks into a collection of that type
Removals ==
    ({"auto", "document", "image"} \X {"none"})
    \cup ({"auto", "document"} \X {"list", "delete"})
    \cup ({"auto", "image"} \X {"get"})

NextService ==
    \/ \E a \in AddFileArgs(ServiceFiles) : AddFile(a)
    \/ \E item_id \in ItemIds, r \in Removals : RemoveDocument(item_id, r[1], r[2])

InitServiceOnly == InitService /\ NoChat

SpecService == InitServiceOnly /\ [][NextService]_vars

(***************************************************************************)
(* delete, statement by statement, called by handlers at the same time     *)
(***************************************************************************)
\* a step inside delete, or a write of another handler: the collection and
\* the handlers' state change
DeleteStep(newcoll, newdeleting) ==
    /\ db' = [db EXCEPT ![collection_name] = newcoll]
    /\ deleting' = newdeleting
    /\ UNCHANGED <<chatVars, mm, vector_db_type, image_caption_auto_generate,
                   config_py, collection_name, client, collection, existing,
                   db_before, op, ret, chunks_count, deleted, was_closed>>

\* the handlers other than h that are inside delete see the collection change
Disturb(h, changed) ==
    [u \in Handlers |->
        deleting.disturbed[u] \/ (changed /\ u # h /\ deleting.pc[u] # "idle")]

\* delete(document_id, chunk_ids, where) up to initial_count = count()
DeleteCountBefore(h, a) ==
    /\ deleting.pc[h] = "idle"
    /\ deleting.started < MaxDeletes
    /\ TextOpen
    /\ DeleteStep(db[collection_name],
                  [deleting EXCEPT !.pc[h] = "delete", !.args[h] = a,
                                   !.initial_count[h] = Count(db[collection_name]),
                                   !.removed[h] = 0, !.disturbed[h] = FALSE,
                                   !.started = @ + 1])

\* the backend's delete by document_id, by chunk_ids or by where; with no
\* condition the call raises
DeleteBackend(h) ==
    LET a == deleting.args[h]
        out == IF IsChroma
               THEN delete(TextOpen, db[collection_name],
                           a.document_id, a.chunk_ids, a.where)
               ELSE QdrantVectorStore_delete(TextOpen, db[collection_name],
                                             a.document_id, a.chunk_ids, a.where)
        removed == Count(db[collection_name]) - Count(out.coll)
    IN  /\ deleting.pc[h] = "delete"
        /\ DeleteStep(out.coll,
              [deleting EXCEPT
                  !.pc[h] = IF out.ret.raised = "none" THEN "count" ELSE "idle",
                  !.removed[h] = removed,
                  !.disturbed = Disturb(h, removed # 0),
                  !.finished = IF out.ret.raised = "none" THEN @
                               ELSE Append(@, [handler |-> h, ret |-> out.ret,
                                               removed |-> 0, disturbed |-> FALSE])])

\* final_count = count(); return initial_count - final_count
DeleteCountAfter(h) ==
    /\ deleting.pc[h] = "count"
    /\ DeleteStep(db[collection_name],
          [deleting EXCEPT
              !.pc[h] = "idle",
              !.finished = Append(@,
                  [handler |-> h,
                   ret |-> Return(deleting.initial_count[h] - Count(db[collection_name])),
                   removed |-> deleting.removed[h],
                   disturbed |-> deleting.disturbed[h]])])

\* add_documents(chunks, embeddings) of another request handler
ConcurrentUpsert(chunks) ==
    LET out == IF IsChroma
               THEN add_documents(TextOpen, db[collection_name], chunks,
                                  embed_documents(Len(chunks)))
               ELSE QdrantVectorStore_add_documents(TextOpen, db[collection_name],
                                  chunks, embed_documents(Len(chunks)))
    IN  /\ deleting.upserts < MaxUpserts
        /\ Count(out.coll) <= MaxStored
        /\ out.coll # db[collection_name]
        /\ DeleteStep(out.coll,
              [deleting EXCEPT !.disturbed = Disturb("", TRUE),
                               !.upserts = @ + 1])

\* by document id, by chunk ids, and with no condition at all
ConcurrentDeletes ==
    {[document_id |-> Some("d1"), chunk_ids |-> None, where |-> None]}
    \cup {[document_id |-> None, chunk_ids |-> Some(<<ChunkId("d1", 0)>>),
           where |-> None],
          [document_id |-> None, chunk_ids |-> None, where |-> None]}

NextConcurrentDelete ==
    \/ \E h \in Handlers, a \in ConcurrentDeletes : DeleteCountBefore(h, a)
    \/ \E h \in Handlers : DeleteBackend(h)
    \/ \E h \in Handlers : DeleteCountAfter(h)
    \/ \E chunks \in {Chunks("d1", 1), Chunks("d1", MaxChunks), Chunks("d2", 1)} :
          ConcurrentUpsert(chunks)

\* an open store of either backend
InitConcurrentDelete == InitServiceOnly /\ image_caption_auto_generate

SpecConcurrentDelete == InitConcurrentDelete /\ [][NextConcurrentDelete]_vars

\* a regular file of that name
Named(name) == File(name, TRUE, FALSE, FALSE)

\* files of every image extension, in lower, upper and mixed case, text
\* files, names without an extension, with two, with a leading or a
\* trailing dot, a directory and a missing file with an image extension
RoutingFiles ==
    {Named(<<"a", ".", "j", "p", "g">>), Named(<<"a", ".", "J", "P", "G">>),
     Named(<<"a", ".", "J", "p", "e", "g">>), Named(<<"a", ".", "p", "n", "g">>),
     Named(<<"a", ".", "g", "i", "f">>), Named(<<"a", ".", "B", "M", "P">>),
     Named(<<"a", ".", "w", "e", "b", "p">>), Named(<<"a", ".", "t", "i", "f", "f">>),
     Named(<<"a", ".", "T", "i", "f">>), Named(<<"a", ".", "t", "x", "t">>),
     Named(<<"a", ".", "m", "d">>), Named(<<"a", ".", "s", "v", "g">>),
     Named(<<"p", "n", "g">>), Named(<<".", "p", "n", "g">>),
     Named(<<"a", ".", "p", "n", "g", ".">>),
     Named(<<"a", ".", "p", "n", "g", ".", "t", "x", "t">>),
     Named(<<"a", ".", "t", "x", "t", ".", "P", "N", "G">>),
     File(<<"d", ".", "p", "n", "g">>, TRUE, TRUE, FALSE),
     File(<<"m", ".", "p", "n", "g">>, FALSE, FALSE, FALSE)}

\* add_file on each of these files, with a caption and without a document id
RoutingArgs ==
    {a \in AddFileArgs(RoutingFiles) :
        /\ Route(a.file) = "image" => a.caption = Some(<<"c">>)
        /\ a.document_id = None /\ a.embedOk}

NextRouting ==
    \/ \E a \in RoutingArgs : AddFile(a)
    \/ \E item_id \in ItemIds : RemoveDocument(item_id, "auto", "none")

SpecRouting == InitServiceOnly /\ [][NextRouting]_vars

(***************************************************************************)
(* Properties of the chat log (SpecChat)                                   *)
(***************************************************************************)
Last(s) == s[Len(s)]

\* the user turn the call of caller t appended
UserTurnOf(t) == ChatMessage("user", call[t].message, call[t].user_turn)

Failed == {"retrieve_error", "llm_error"}

\* C1: while a chat call is retrieving or generating, its user turn is already
\* the last turn of the log; and when the call has raised (retrieval or
\* generation failed), the user turn is still the last turn of the log and the
\* last turn ever appended, so no assistant turn was appended for it.
C1_UserTurnBeforeRetrieval ==
    \A t \in Threads :
        /\ pc[t] \in {"retrieve", "prompt", "invoke"} =>
              /\ chat_history.messages # <<>>
              /\ Last(chat_history.messages) = UserTurnOf(t)
        /\ (pc[t] = "idle" /\ outcomes # <<>> /\ Last(outcomes) \in Failed) =>
              /\ result[t].raised \in {"RetrievalFailed", "GenerationFailed"}
              /\ chat_history.messages # <<>>
              /\ Last(chat_history.messages) = UserTurnOf(t)
              /\ Last(appended) = UserTurnOf(t)

\* a call that got through retrieval and failed in generation, after an
\* earlier call that succeeded
C1_Witness ==
    /\ Idle
    /\ outcomes = <<"ok", "llm_error">>
    /\ Len(chat_history.messages) = 3
    /\ Last(chat_history.messages).role = "user"

\* C2: with a cap N >= 1 the log never holds more than N turns, and it holds
\* exactly the last N turns appended (all of them while fewer were appended),
\* in append order: after each append the oldest turns are the ones gone.
C2_CapKeepsMostRecent ==
    \A N \in 1..MaxCap :
        chat_history.max_messages = Some(N) =>
            LET kept == IF Len(appended) <= N THEN Len(appended) ELSE N
            IN  /\ Len(chat_history.messages) = kept
                /\ \A i \in 1..kept :
                      chat_history.messages[i] = appended[Len(appended) - kept + i]

\* a log with cap 2 that has been handed four turns
C2_Witness ==
    /\ chat_history.max_messages = Some(2)
    /\ Len(appended) = 4
    /\ Len(chat_history.messages) = 2
    /\ chat_history.messages[1] = appended[3]

\* C3: with max history 4, when the third of three successful chat calls
\* returns, it reports history length 4 and the log is user turn 2, assistant
\* turn 2, user turn 3, assistant turn 3.
C3_ThreeChatsKeepFour ==
    (/\ chat_history.max_messages = Some(4)
     /\ Idle
     /\ outcomes = <<"ok", "ok", "ok">>) =>
        /\ \A t \in Threads : result[t].history_length = 4
        /\ Len(appended) = 6
        /\ chat_history.messages = SubSeq(appended, 3, 6)
        /\ [i \in 1..4 |-> chat_history.messages[i].role]
              = <<"user", "assistant", "user", "assistant">>
        /\ [i \in 1..4 |-> chat_history.messages[i].timestamp] = <<3, 4, 5, 6>>

\* the third successful call has returned on an engine with max history 4
C3_Witness ==
    /\ chat_history.max_messages = Some(4)
    /\ Idle
    /\ outcomes = <<"ok", "ok", "ok">>
    /\ Len(chat_history.messages) = 4

(***************************************************************************)
(* Properties of the store (SpecMultimodal, SpecStore)                     *)
(***************************************************************************)
MultimodalOps == {"search_multimodal", "engine.search_multimodal"}

\* C4: a multimodal search on an open store whose text search and image
\* search both raised raises itself; it does not return a result list.
C4_BothFailPropagates ==
    (op.name \in MultimodalOps /\ client /\ op.text_raised /\ op.image_raised) =>
        ret.raised # "none"

\* an open Chroma store holding chunks and an image, both of whose searches
\* raised, handed back an empty result list
C4_Witness ==
    /\ op.name = "search_multimodal" /\ client
    /\ db["documents"] # <<>> /\ db["images"] # <<>>
    /\ op.text_raised /\ op.image_raised
    /\ ret = Return(<<>>)

StoreOps == {"add_documents", "add_images", "search", "search_images",
             "search_multimodal", "delete", "list_documents",
             "get_document_count", "clear"}

\* C5: once close() has been called on the store, every store operation
\* called on it afterwards fails.
C5_ClosedStoreFails ==
    (was_closed /\ op.name \in StoreOps) => ret.raised # "none"

\* a closed store that holds chunks answered a multimodal search with an
\* empty result list
C5_Witness ==
    /\ was_closed /\ ~client /\ ~collection
    /\ db["documents"] # <<>>
    /\ op.name = "search_multimodal"
    /\ ret = Return(<<>>)

\* the batch an upsert was called with, and the collection it goes to
IsUpsert == op.name \in {"add_documents", "add_images"}
Items == IF op.name = "add_documents" THEN op.chunks ELSE op.images
Batch == Zip(Items, op.embeddings)
Target == IF op.name = "add_documents" THEN collection_name ELSE "images"
\* the store is open for the upsert and its backend has the method
Accepts == IF op.name = "add_documents" THEN TextOpen ELSE IsChroma /\ client
Stored(c, r) == \E i \in DOMAIN c : c[i] = r
EntriesOf(c, id) == {i \in DOMAIN c : c[i].id = id}

\* C6: an upsert of entries that are all stored already, each with the same
\* id, vector and metadata, completes normally and leaves the count as it
\* was: each id has exactly one entry, the one upserted; and no collection
\* ever holds two entries for one id.
C6_IdempotentUpsert ==
    /\ \A n \in CollNames : \A i, j \in DOMAIN db[n] :
          db[n][i].id = db[n][j].id => i = j
    /\ (/\ IsUpsert /\ Accepts
        /\ Len(Items) = Len(op.embeddings) /\ Items # <<>>
        /\ \A i \in DOMAIN Batch : Stored(db_before[Target], Batch[i])) =>
          /\ ret.raised = "none"
          /\ Count(db[Target]) = Count(db_before[Target])
          /\ \A i \in DOMAIN Batch :
                /\ Cardinality(EntriesOf(db[Target], Batch[i].id)) = 1
                /\ Stored(db[Target], Batch[i])

\* both chunks of d1 were upserted a second time
C6_Witness ==
    /\ op.name = "add_documents" /\ ret.raised = "none"
    /\ Len(op.chunks) = 2 /\ Len(op.embeddings) = 2
    /\ \A i \in DOMAIN Batch : Stored(db_before[Target], Batch[i])
    /\ Count(db[collection_name]) = 2

\* C7: an upsert of chunks or of images whose item list and vector list
\* differ in length fails and writes nothing, every collection is as it was
\* before the call; on an open store that has the method the error is the
\* length mismatch.
C7_MismatchWritesNothing ==
    (IsUpsert /\ Len(Items) # Len(op.embeddings)) =>
        /\ ret.raised # "none"
        /\ db = db_before
        /\ Accepts => ret.raised = "LengthMismatch"

\* two images with one vector, handed to a store that holds records
C7_Witness ==
    /\ op.name = "add_images" /\ Len(op.images) = 2 /\ Len(op.embeddings) = 1
    /\ ret.raised = "LengthMismatch"
    /\ db["images"] # <<>> /\ db["documents"] # <<>>

\* C10 as stated: after clear() both collections are empty and both still
\* exist.
C10_ClearEmptiesBoth ==
    (op.name = "clear" /\ ret.raised = "none" /\ CollNames \subseteq existing) =>
        \A n \in CollNames : db[n] = <<>> /\ n \in existing

\* C10: after clear() the collection the store is bound to is empty, still
\* exists and the store is still open on it; the other collection is as it
\* was before the call.
C10_ClearEmptiesOwnCollection ==
    (op.name = "clear" /\ ret.raised = "none") =>
        /\ db[collection_name] = <<>>
        /\ collection_name \in existing
        /\ TextOpen
        /\ \A n \in CollNames \ {collection_name} : db[n] = db_before[n]

\* a store holding chunks and an image was cleared
C10_Witness ==
    /\ op.name = "clear" /\ ret.raised = "none"
    /\ db_before["documents"] # <<>>
    /\ db["documents"] = <<>>
    /\ db["images"] # <<>>

NoHit(d) ==
    \A q \in Vecs, k \in 1..MaxStored, where \in SearchFilters :
        LET found == IF IsChroma
                     THEN search(TextOpen, db["documents"], q, k, where, FALSE)
                     ELSE QdrantVectorStore_search(TextOpen, db["documents"], q, k,
                                                   where, FALSE)
        IN  \A i \in DOMAIN found.value : found.value[i].document_id # d

DeletedDocument(d) ==
    op.name = "delete" /\ op.document_id = Some(d) /\ ret.raised = "none"

\* C8: once delete(document_id=d) has returned, and until chunks of d are
\* upserted again, no search over the documents collection, whatever the
\* query, the number of results asked for and the filter, returns a hit whose
\* document_id is d.
C8_DeletedDocumentNotFound ==
    /\ \A d \in DocIds : DeletedDocument(d) => d \in deleted
    /\ \A d \in deleted : NoHit(d)

\* d1 with two chunks was deleted while a chunk of d2 stays stored
C8_Witness ==
    /\ DeletedDocument("d1") /\ ret.value = 2
    /\ \E i \in DOMAIN db["documents"] :
          db["documents"][i].document_id = Some("d2")
    /\ \E i \in DOMAIN db_before["documents"] :
          db_before["documents"][i].document_id = Some("d1")

\* the condition of the delete, by the first argument that is set
Condemned(o, rec) ==
    IF TruthyStr(o.document_id) THEN rec.document_id = o.document_id
    ELSE IF TruthyList(o.chunk_ids)
         THEN \E i \in DOMAIN o.chunk_ids[1] : o.chunk_ids[1][i] = rec.id
    ELSE Matches(rec, o.where[1])

\* C9: a delete that returns has removed every stored chunk its condition
\* matches and nothing else, and returns the number of chunks it removed; for
\* delete(document_id=D) on a document whose one ingest reported chunks_count
\* chunks, the count returned is chunks_count.
C9_DeleteReturnsCountRemoved ==
    [][(op'.name = "delete" /\ ret'.raised = "none") =>
          LET before == db["documents"]
              after == db'["documents"]
              gone == {i \in DOMAIN before : Condemned(op', before[i])}
          IN  /\ after = SelectSeq(before, LAMBDA r : ~Condemned(op', r))
              /\ ret'.value = Cardinality(gone)
              /\ ret'.value = Len(before) - Len(after)
              /\ \A d \in DocIds :
                    (op'.document_id = Some(d) /\ chunks_count[d] # None) =>
                        ret'.value = chunks_count[d][1]]_vars

\* d2, ingested with two chunks, was deleted from a store that also holds d1
C9_Witness ==
    /\ op.name = "delete" /\ op.document_id = Some("d2") /\ ret = Return(2)
    /\ Len(db_before["documents"]) = 3
    /\ Len(db["documents"]) = 1

(***************************************************************************)
(* Properties of the result lists (SpecMultimodal)                         *)
(***************************************************************************)
SearchOps == {"search", "search_images", "search_multimodal",
              "engine.search_multimodal"}

\* a result list whose ranks count from 1 and whose scores never rise
RankedByScore(H) ==
    \A i \in DOMAIN H :
        /\ H[i].rank = i
        /\ i < Len(H) => GreaterEq(H[i].score, H[i + 1].score)

\* C11: every result list H a search operation returns (search, search_images,
\* the store's search_multimodal, the engine's search_multimodal) has
\* H[i].rank = i counting from 1 and H[i].score >= H[i+1].score.
C11_MonotonicRank ==
    (op.name \in SearchOps /\ ret.raised = "none") => RankedByScore(ret.value)

\* the engine's multimodal search returned a text hit and an image hit that
\* both carry rank 1
C11_Witness ==
    /\ op.name = "engine.search_multimodal" /\ ret.raised = "none"
    /\ Len(ret.value) = 2
    /\ ret.value[1].rank = 1 /\ ret.value[2].rank = 1
    /\ ret.value[1].result_type # ret.value[2].result_type

\* C12: every hit a search operation returns has 0 <= score <= 1, the hits of
\* a multimodal search, whose scores were multiplied by a weight from [0, 1],
\* included.
C12_ScoreBounds ==
    (op.name \in SearchOps /\ ret.raised = "none") =>
        \A i \in DOMAIN ret.value : ValidScore(ret.value[i].score)

\* a multimodal search under the default weights returned an exact match, its
\* score halved, ahead of a hit a quarter turn away
C12_Witness ==
    /\ op.name = "search_multimodal" /\ ret.raised = "none"
    /\ op.text_weight = None /\ op.image_weight = None
    /\ Len(ret.value) = 2
    /\ ret.value[1].score = Times(Frac(1, 1), Frac(1, 2))
    /\ ret.value[2].score = Times(Frac(1, 3), Frac(1, 2))

\* a Qdrant search whose query points away from a stored vector: the cosine
\* is negative and the search fails instead of returning the hit
NegativeCosineRefused ==
    /\ ~IsChroma /\ op.name = "search" /\ op.query_embedding = 2
    /\ db["documents"] # <<>> /\ ret.raised = "BackendError"

\* the hits search(q, k) and search_images(q, k) gave the multimodal search
\* recorded in op (none from a search that raised)
TextHits ==
    IF op.text_raised THEN <<>>
    ELSE TextSearch(op.query_embedding, op.top_k, FALSE).value
ImageHits ==
    IF op.image_raised THEN <<>>
    ELSE ImageSearch(op.query_embedding, op.top_k, FALSE).value

\* the merged list with weight-adjusted scores: wT x score, wI x score
Adjusted ==
    Weighted(TextHits, WeightOr(op.text_weight, DEFAULT_MULTIMODAL_SEARCH_TEXT_WEIGHT))
    \o Weighted(ImageHits, WeightOr(op.image_weight, DEFAULT_MULTIMODAL_SEARCH_IMAGE_WEIGHT))

\* the same hit, whatever its rank
SameHit(a, b) ==
    /\ a.chunk_id = b.chunk_id /\ a.result_type = b.result_type
    /\ a.document_id = b.document_id /\ a.score = b.score

Min(a, b) == IF a <= b THEN a ELSE b

\* C13: search_multimodal(q, k, wT, wI) returns at most k hits, and they are
\* the k highest-scoring hits, by weight-adjusted score, of the merged list of
\* the top-k text hits and the top-k image hits.
C13_TopKOfMerged ==
    (op.name = "search_multimodal" /\ ret.raised = "none") =>
        LET H == ret.value
            chosen == {i \in DOMAIN Adjusted :
                         \E j \in DOMAIN H : SameHit(H[j], Adjusted[i])}
        IN  /\ Len(H) <= op.top_k
            /\ Len(H) = Min(op.top_k, Len(Adjusted))
            /\ \A j \in DOMAIN H : \E i \in DOMAIN Adjusted : SameHit(H[j], Adjusted[i])
            /\ \A j1, j2 \in DOMAIN H : j1 # j2 => ~SameHit(H[j1], H[j2])
            /\ Cardinality(chosen) = Len(H)
            /\ \A i \in chosen, j \in DOMAIN Adjusted \ chosen :
                  GreaterEq(Adjusted[i].score, Adjusted[j].score)

\* two text hits and an image hit compete for two places; the image hit, an
\* exact match, takes one of them from the poorer text hit
C13_Witness ==
    /\ op.name = "search_multimodal" /\ ret.raised = "none" /\ op.top_k = 2
    /\ Len(TextHits) = 2 /\ Len(ImageHits) >= 1
    /\ Len(ret.value) = 2
    /\ ret.value[2].result_type = "image"
    /\ ~GreaterEq(TextHits[2].score, ImageHits[1].score)

OfType(H, result_type) == SelectSeq(H, LAMBDA h : h.result_type = result_type)

\* the multimodal search recorded in op ran with weights wT, wI
WeightedBy(wT, wI) ==
    /\ op.name = "search_multimodal" /\ ret.raised = "none"
    /\ op.text_weight = Some(Frac(wT, 1)) /\ op.image_weight = Some(Frac(wI, 1))

\* C14: search_multimodal(q, k, wT=1, wI=0), restricted to its text hits, gives
\* the same hits in the same order and with the same ranks (and scores) as
\* search(q, k).
C14_TextOnlyWeights ==
    (/\ WeightedBy(1, 0)
     /\ TextSearch(op.query_embedding, op.top_k, FALSE).raised = "none") =>
        OfType(ret.value, "text")
            = TextSearch(op.query_embedding, op.top_k, FALSE).value

\* two text hits and an image that matches better than the second of them:
\* under weights 1, 0 the result is the two text hits as search ranks them
C14_Witness ==
    /\ WeightedBy(1, 0) /\ op.top_k = 2
    /\ Len(TextHits) = 2 /\ Len(ImageHits) >= 1
    /\ ~GreaterEq(TextHits[2].score, ImageHits[1].score)
    /\ ret.value = TextHits

\* C15 as stated: search_multimodal(q, k, wT=0, wI=1) returns the same hits, in
\* the same order and with the same ranks, as search_images(q, k).
C15_ImageOnlyWeightsWholeList ==
    (/\ WeightedBy(0, 1)
     /\ ImageSearch(op.query_embedding, op.top_k, FALSE).raised = "none") =>
        ret.value = ImageSearch(op.query_embedding, op.top_k, FALSE).value

\* C15: search_multimodal(q, k, wT=0, wI=1), restricted to its image hits,
\* gives the same hits in the same order and with the same ranks (and scores)
\* as search_images(q, k); places the image hits leave free go to text hits
\* with score 0.
C15_ImageOnlyWeights ==
    (/\ WeightedBy(0, 1)
     /\ ImageSearch(op.query_embedding, op.top_k, FALSE).raised = "none") =>
        /\ OfType(ret.value, "image")
              = ImageSearch(op.query_embedding, op.top_k, FALSE).value
        /\ \A i \in DOMAIN ret.value :
              ret.value[i].result_type = "text" =>
                  /\ ret.value[i].score.num = 0
                  /\ i > Len(ImageHits)

\* one image and a chunk, two places: under weights 0, 1 the image hit comes
\* first and a text hit with score 0 takes the second place
C15_Witness ==
    /\ WeightedBy(0, 1) /\ op.top_k = 2
    /\ Len(ImageHits) = 1 /\ Len(TextHits) >= 1
    /\ Len(ret.value) = 2
    /\ ret.value[1] = ImageHits[1]
    /\ ret.value[2].result_type = "text" /\ ret.value[2].rank = 2

(***************************************************************************)
(* The two searches of a multimodal search (SpecFusion)                    *)
(***************************************************************************)
\* where event e stands in the events of the multimodal search, 0: not yet
Position(e) ==
    IF \E i \in DOMAIN mm.events : mm.events[i] = e
    THEN CHOOSE i \in DOMAIN mm.events : mm.events[i] = e
    ELSE 0

Happened(e) == Position(e) > 0

\* a multimodal search that went through its searches has returned
FusionReturned ==
    /\ mm.pc = "idle" /\ mm.events # <<>> /\ op.name \in MultimodalOps

\* the multimodal search returns only after both searches completed or failed
ReturnsAfterBoth ==
    FusionReturned => Happened("text_end") /\ Happened("image_end")

\* C16: a multimodal search issues the text search and the image search
\* concurrently -- neither is started only after the other has finished -- and
\* returns only after both have completed or failed.
C16_SearchesConcurrent ==
    /\ (Happened("image_start") /\ Happened("text_end")) =>
            Position("image_start") < Position("text_end")
    /\ (Happened("text_start") /\ Happened("image_end")) =>
            Position("text_start") < Position("image_end")
    /\ ReturnsAfterBoth

\* a multimodal search returned hits of both kinds after it ran the text
\* search to its end and only then started the image search
C16_Witness ==
    /\ FusionReturned /\ ret.raised = "none"
    /\ mm.events = <<"text_start", "text_end", "image_start", "image_end">>
    /\ OfType(ret.value, "text") # <<>> /\ OfType(ret.value, "image") # <<>>

(***************************************************************************)
(* Listing and lookup (SpecRoundTrip)                                      *)
(***************************************************************************)
\* list_documents() and get_document_by_id(id) as the store answers them now
Listing ==
    IF IsChroma THEN list_documents(TextOpen, db[collection_name], None)
    ELSE QdrantVectorStore_list_documents(TextOpen, db[collection_name], None)

Lookup(document_id) ==
    IF IsChroma THEN get_document_by_id(Listing, document_id)
    ELSE QdrantVectorStore_get_document_by_id(TextOpen, db[collection_name],
                                              document_id)

\* the entry get_document_by_id returns agrees with the entry d of the list
Agrees(d) ==
    /\ Lookup(d.document_id).raised = "none"
    /\ Lookup(d.document_id).value # None
    /\ Lookup(d.document_id).value[1].chunk_count = d.chunk_count
    /\ Lookup(d.document_id).value[1].total_size = d.total_size

\* C17: with no write in between, for every document d that list_documents()
\* returns, get_document_by_id(d.id) returns an entry (not null) whose chunk
\* count and total size equal those list_documents() reported for d.
C17_ListThenGetAgree ==
    Listing.raised = "none" =>
        \A i \in DOMAIN Listing.value : Agrees(Listing.value[i])

\* a Qdrant store holds a document of more chunks than a scroll page; the
\* lookup just made reports a page of them, the list reports them all
C17_Witness ==
    /\ ~IsChroma /\ op.name = "get_document_by_id" /\ op.document_id = "d1"
    /\ ret.raised = "none" /\ ret.value # None
    /\ ret.value[1].chunk_count = DEFAULT_SCROLL_LIMIT
    /\ \E i \in DOMAIN Listing.value :
          /\ Listing.value[i].document_id = "d1"
          /\ Listing.value[i].chunk_count = MaxScrolled

\* the same statement on the Chroma store, and on a Qdrant store whose
\* documents fit a scroll page
RoundTripWithinPage ==
    (/\ Listing.raised = "none"
     /\ IsChroma \/ \A i \in DOMAIN Listing.value :
                       Listing.value[i].chunk_count <= DEFAULT_SCROLL_LIMIT) =>
        \A i \in DOMAIN Listing.value : Agrees(Listing.value[i])

\* the same statement for the store's own searches, which number their hits
StoreSearchesRanked ==
    (op.name \in SearchOps \ {"engine.search_multimodal"} /\ ret.raised = "none")
        => RankedByScore(ret.value)

(***************************************************************************)
(* Removal through the service                                             *)
(***************************************************************************)
\* the last call was remove_document and every backend call it made worked
Removal == op.name = "remove_document" /\ op.fault = "none"

HadDocument == DocRecs(db_before["documents"], op.item_id) # <<>>
HadImage == ImageIdOf(op.item_id) \in Ids(db_before["images"])

\* the collection as it was, without the records of the item
DocumentsWithout ==
    SelectSeq(db_before["documents"], LAMBDA r : r.document_id # Some(op.item_id))
ImagesWithout ==
    SelectSeq(db_before["images"], LAMBDA r : r.id # ImageIdOf(op.item_id))

RemovedAs(item_type) ==
    /\ ret.raised = "none" /\ ret.value.success
    /\ ret.value.item_type = item_type

Refused == ret.raised = "none" /\ ~ret.value.success

ExplicitTypeMisses ==
    /\ Removal /\ op.item_type = "document"
    /\ ~HadDocument /\ HadImage
    /\ Refused /\ db = db_before

\* "auto" found no document and removed the image
AutoFallsBackToImage ==
    /\ Removal /\ op.item_type = "auto"
    /\ ~HadDocument /\ HadImage
    /\ RemovedAs("image") /\ ImageIdOf(op.item_id) \notin Ids(db["images"])

(***************************************************************************)
(* Captions of the stored images                                           *)
(***************************************************************************)
\* the last call was add_file on a file that went to the image path
ImageIngest == op.name = "add_file" /\ op.route = "image"

Ingested == ret.raised = "none" /\ ret.value.success

\* the caller gave a caption (an empty string counts as none)
CaptionGiven == op.caption # None /\ op.caption[1] # <<>>

\* the vision model was asked for a caption and gave none: it failed, or
\* its answer is blank
NoCaptionGenerated ==
    /\ ~CaptionGiven /\ image_caption_auto_generate
    /\ \/ op.vision.caption.raised # "none"
       \/ \A i \in DOMAIN op.vision.caption.value : op.vision.caption.value[i] = " "

\* the caption the image is to be stored with
ExpectedCaption ==
    IF CaptionGiven THEN op.caption[1]
    ELSE IF image_caption_auto_generate THEN strip(op.vision.caption.value)
    ELSE <<"I", "m", "a", "g", "e", ":", " ">> \o op.file.name

StoredAs(image_id) ==
    db["images"][CHOOSE i \in DOMAIN db["images"] : db["images"][i].id = image_id]

\* C20: no stored image has an empty caption; an image that add_file stored
\* has the caller's caption if one was given, else the generated caption if
\* captions are generated, else "Image: <file name>"; and when the generated
\* caption is empty or missing the call fails and stores nothing
C20_CaptionNeverEmpty ==
    /\ \A i \in DOMAIN db["images"] : db["images"][i].caption # <<>>
    /\ ImageIngest /\ Ingested =>
          /\ op.image_id \in Ids(db["images"])
          /\ StoredAs(op.image_id).caption = ExpectedCaption
          /\ ret.value.caption = ExpectedCaption
    /\ ImageIngest /\ NoCaptionGenerated => ~Ingested /\ db = db_before

\* two images are stored, one with the caption its caller gave and one with
\* a caption nobody gave
C20_Witness ==
    /\ ImageIngest /\ Ingested
    /\ Len(db["images"]) = 2
    /\ \E i, j \in DOMAIN db["images"] :
          /\ db["images"][i].caption = <<"c">>
          /\ db["images"][j].caption # <<"c">>

\* the fallback caption was stored
FallbackCaptionStored ==
    /\ ImageIngest /\ Ingested /\ ~CaptionGiven /\ ~image_caption_auto_generate
    /\ StoredAs(op.image_id).caption = FallbackCaption(op.file.name)

\* the vision model answered with a blank: a failure, nothing stored
BlankCaptionRefused ==
    /\ ImageIngest /\ NoCaptionGenerated /\ op.vision.caption.raised = "none"
    /\ ~Ingested /\ ret.value.error = "ImageProcessorError"
    /\ db = db_before

(***************************************************************************)
(* Routing of add_file                                                     *)
(***************************************************************************)
\* the extensions of image files, without the dot
ImageExtensionNames ==
    {<<"j", "p", "g">>, <<"j", "p", "e", "g">>, <<"p", "n", "g">>, <<"g", "i", "f">>,
     <<"b", "m", "p">>, <<"w", "e", "b", "p">>, <<"t", "i", "f", "f">>,
     <<"t", "i", "f">>}

\* the same character, or the same letter in the other case
SameIgnoringCase(x, y) ==
    x = y \/ \E k \in DOMAIN UPPERCASE : {x, y} = {UPPERCASE[k], LOWERCASE[k]}

\* name is <stem>.<ext> with a non-empty stem, ext in any case: the
\* extension is what follows the last dot
HasExtension(name, ext) ==
    /\ Len(name) >= Len(ext) + 2
    /\ name[Len(name) - Len(ext)] = "."
    /\ \A i \in DOMAIN ext : SameIgnoringCase(name[Len(name) - Len(ext) + i], ext[i])

IsImageName(name) == \E ext \in ImageExtensionNames : HasExtension(name, ext)

\* C19: add_file hands a file that exists and is no directory to the image
\* path exactly when its name has one of the image extensions, in any case,
\* and to the text path otherwise; the path not taken leaves its collection
\* alone and the result is the one of the path taken; a directory is refused
\* with neither path taken and nothing stored
C19_RoutingByExtension ==
    op.name = "add_file" =>
        /\ op.file.exists /\ ~op.file.is_dir =>
              /\ op.route = IF IsImageName(op.file.name) THEN "image" ELSE "text"
              /\ op.route = "image" =>
                    /\ db["documents"] = db_before["documents"]
                    /\ Ingested => /\ "image_id" \in DOMAIN ret.value
                                   /\ op.image_id \in Ids(db["images"])
              /\ op.route = "text" =>
                    /\ db["images"] = db_before["images"]
                    /\ Ingested => /\ "chunks_count" \in DOMAIN ret.value
                                   /\ DocRecs(db["documents"], ret.value.document_id) # <<>>
        /\ op.file.exists /\ op.file.is_dir =>
              /\ op.route = "none"
              /\ ~Ingested /\ ret.value.error = "DirectoryNotSupported"
              /\ db = db_before

\* a file with an upper-case image extension was stored as an image
C19_Witness ==
    /\ op.name = "add_file" /\ op.file.exists /\ ~op.file.is_dir
    /\ suffix(op.file.name) # lower(suffix(op.file.name))
    /\ op.route = "image" /\ Ingested
    /\ op.image_id \in Ids(db["images"]) /\ op.image_id \notin Ids(db_before["images"])

\* a file whose name only contains an image extension went to the text path
InnerExtensionIsText ==
    /\ op.name = "add_file" /\ op.file.name = <<"a", ".", "p", "n", "g", ".", "t", "x", "t">>
    /\ op.route = "text" /\ Ingested
    /\ db["documents"] # db_before["documents"]

\* a directory with an image extension was refused
DirectoryRefused ==
    /\ op.name = "add_file" /\ op.file.is_dir /\ IsImageName(op.file.name)
    /\ ~Ingested /\ db = db_before

\* a .tiff file went to the image path, which does not accept it
TiffRoutedToImages ==
    /\ op.name = "add_file" /\ op.file.name = <<"a", ".", "t", "i", "f", "f">>
    /\ op.route = "image"
    /\ ~Ingested /\ ret.value.error = "UnsupportedImageTypeError"

Blank(message) == \A i \in DOMAIN message : message[i] = " "

\* C26: a chat call whose message is empty or blank never gets past the
\* retrieval; it raises, and when it has raised its message is the last turn
\* of the log and the last turn ever appended, as a user turn: the turn was
\* not taken back and no assistant turn followed it
C26_BlankMessageStaysLogged ==
    \A t \in Threads :
        Blank(call[t].message) =>
            /\ pc[t] \notin {"prompt", "invoke"}
            /\ (pc[t] = "idle" /\ outcomes # <<>>) =>
                  /\ result[t].raised = "RetrievalFailed"
                  /\ Last(outcomes) = "retrieve_error"
                  /\ appended # <<>>
                  /\ Last(appended) = UserTurnOf(t)
                  /\ chat_history.messages # <<>>
                  /\ Last(chat_history.messages) = UserTurnOf(t)

\* an answered call, then a call with a blank message that raised: three
\* turns in the log, the last one the blank user turn
C26_Witness ==
    /\ Idle
    /\ outcomes = <<"ok", "retrieve_error">>
    /\ \E t \in Threads : call[t].message = <<" ">> /\ result[t].raised = "RetrievalFailed"
    /\ chat_history.max_messages = None
    /\ Len(chat_history.messages) = 3
    /\ Last(chat_history.messages).content = <<" ">>
    /\ Last(chat_history.messages).role = "user"

(***************************************************************************)
(* Two chat calls on one engine                                            *)
(***************************************************************************)
InProgress(t) == pc[t] # "idle"

Roles(msgs) == [i \in DOMAIN msgs |-> msgs[i].role]

\* every user turn but possibly the last is directly followed by an
\* assistant turn, and every assistant turn directly follows a user turn
Alternates(msgs) ==
    \A i \in DOMAIN msgs :
        IF msgs[i].role = "user"
        THEN i = Len(msgs) \/ msgs[i + 1].role = "assistant"
        ELSE i > 1 /\ msgs[i - 1].role = "user"

\* C24: nothing keeps two chat calls on one engine apart. Whenever both are
\* between their first and their last step, the turns appended so far are
\* not a sequence of user turns each directly followed by an assistant turn:
\* the user turn of one call went in while the other call's user turn was
\* still waiting for its answer. While nothing is evicted that is the log
\* itself, and the call that started later, once it is about to invoke the
\* LLM, has in the history of its prompt the user turn the other call is
\* still working on
C24_ConcurrentChatsInterleave ==
    \A t, u \in Callers :
        (InProgress(t) /\ InProgress(u) /\ call[u].user_turn < call[t].user_turn) =>
            /\ appended[call[u].user_turn] = UserTurnOf(u)
            /\ appended[call[t].user_turn] = UserTurnOf(t)
            /\ ~Alternates(appended)
            /\ chat_history.max_messages = None =>
                  /\ chat_history.messages = appended
                  /\ pc[t] = "invoke" =>
                        \E i \in DOMAIN call[t].prompt_history :
                            call[t].prompt_history[i] = UserTurnOf(u)

\* both calls have returned an answer and the log is user, user, assistant,
\* assistant
C24_Witness ==
    /\ \A t \in Callers : pc[t] = "idle" /\ result[t].raised = "none"
    /\ outcomes = <<"ok", "ok">>
    /\ Roles(chat_history.messages) = <<"user", "user", "assistant", "assistant">>
    /\ ~Alternates(chat_history.messages)

\* the prompt of one call holds the question the other call is still working on
PromptHoldsOtherQuestion ==
    \E t, u \in Callers :
        /\ t # u /\ pc[t] = "invoke" /\ InProgress(u)
        /\ \E i \in DOMAIN call[t].prompt_history :
              call[t].prompt_history[i] = UserTurnOf(u)

\* one caller at a time and no call that failed: the log alternates
SequentialChatsAlternate ==
    (chat_history.max_messages = None /\ \A i \in DOMAIN outcomes : outcomes[i] = "ok")
        => Alternates(chat_history.messages)

(***************************************************************************)
(* Extensions routed to the image path and extensions the loader accepts   *)
(***************************************************************************)
\* C28: a file that add_file hands to the image path is never refused there
\* for its extension: the call does not end with UnsupportedImageTypeError
C28_RoutedExtensionsAccepted ==
    (op.name = "add_file" /\ op.route = "image") =>
        ~(ret.raised = "none" /\ ~ret.value.success
          /\ ret.value.error = "UnsupportedImageTypeError")

\* a.Tif, an existing file of a size within the limit, was handed to the image
\* path and refused there as an unsupported image type; nothing was stored
C28_Witness ==
    /\ op.name = "add_file" /\ op.file = Named(<<"a", ".", "T", "i", "f">>)
    /\ op.route = "image"
    /\ ~Ingested /\ ret.value.error = "UnsupportedImageTypeError"
    /\ db = db_before

\* the extensions routed to the image path that the loader does accept
\* never end that way
AcceptedExtensionsLoad ==
    (op.name = "add_file" /\ op.route = "image"
     /\ lower(suffix(op.file.name)) \in ImageProcessor_SUPPORTED_EXTENSIONS) =>
        ~(~Ingested /\ ret.value.error = "UnsupportedImageTypeError")

(***************************************************************************)
(* list_documents with a limit                                             *)
(***************************************************************************)
\* the last call was list_documents(limit=n) and it returned
LimitedListing == op.name = "list_documents" /\ op.limit # None /\ ret.raised = "none"

\* C29: list_documents(limit=n) returns no document id twice, and each of
\* its entries is the entry list_documents() without a limit returns for
\* that document: the chunk count and the total size cover every chunk
\* stored for the document
C29_LimitedListingCoversAllChunks ==
    LimitedListing =>
        /\ \A i, j \in DOMAIN ret.value :
              ret.value[i].document_id = ret.value[j].document_id => i = j
        /\ \A i \in DOMAIN ret.value :
              \E j \in DOMAIN Listing.value :
                  /\ Listing.value[j].document_id = ret.value[i].document_id
                  /\ Listing.value[j].chunk_count = ret.value[i].chunk_count
                  /\ Listing.value[j].total_size = ret.value[i].total_size

\* a document of two chunks is stored and list_documents(limit=1) reports it
\* with one chunk
C29_Witness ==
    /\ LimitedListing /\ op.limit = Some(1)
    /\ Len(DocRecs(db[collection_name], "d1")) = 2
    /\ \E i \in DOMAIN ret.value :
          /\ ret.value[i].document_id = "d1"
          /\ ret.value[i].chunk_count = 1
    /\ \E j \in DOMAIN Listing.value :
          /\ Listing.value[j].document_id = "d1"
          /\ Listing.value[j].chunk_count = 2

\* a limited listing never names a document twice and never reports more
\* chunks than are stored for it
LimitedListingUndercounts ==
    LimitedListing =>
        /\ \A i, j \in DOMAIN ret.value :
              ret.value[i].document_id = ret.value[j].document_id => i = j
        /\ \A i \in DOMAIN ret.value :
              ret.value[i].chunk_count
                  <= Len(DocRecs(db[collection_name], ret.value[i].document_id))

(***************************************************************************)
(* DocumentProcessor: chunks and their metadata                            *)
(***************************************************************************)
\* a metadata dict is a function from its keys to their values
\* {**a, **b} and a.update(b): the keys of b win
Merge(a, b) == [k \in DOMAIN a \cup DOMAIN b |-> IF k \in DOMAIN b THEN b[k] ELSE a[k]]

\* dict.get(key, default)
get(metadata, key, default) == IF key \in DOMAIN metadata THEN metadata[key] ELSE default

\* characters per chunk of the text splitter
ChunkSize == 2

\* DocumentProcessor.load_document on a readable file of a supported type
load_document(name, content) ==
    [name |-> name, content |-> content,
     doc_type |-> Tail(lower(suffix(name))),
     source |-> <<"/">> \o name,
     metadata |-> [file_size |-> Len(content), file_modified |-> "mtime",
                   encoding |-> IF Tail(lower(suffix(name))) \in
                                       {<<"t", "x", "t">>, <<"m", "d">>}
                                THEN "utf-8" ELSE "binary"]]

\* split_text: the pieces of the text, each of at most ChunkSize characters
RECURSIVE split_text(_)
split_text(text) ==
    IF text = <<>> THEN <<>>
    ELSE IF Len(text) <= ChunkSize THEN <<text>>
    ELSE <<SubSeq(text, 1, ChunkSize)>> \o split_text(SubSeq(text, ChunkSize + 1, Len(text)))

\* str.find(piece, start) with positions counted from 0; -1 when not found
find(content, piece, start) ==
    LET at == {i \in start..(Len(content) - Len(piece)) :
                  SubSeq(content, i + 1, i + Len(piece)) = piece}
    IN  IF at = {} THEN 0 - 1 ELSE CHOOSE i \in at : \A j \in at : i <= j

\* Chunk(...) with Chunk.__post_init__: the chunk-specific keys are written
\* over the metadata handed in
ChunkOf(content, chunk_id, document_id, chunk_index, start_char, end_char, metadata) ==
    [content |-> content, chunk_id |-> chunk_id, document_id |-> document_id,
     chunk_index |-> chunk_index, start_char |-> start_char, end_char |-> end_char,
     metadata |-> Merge(metadata,
                        [chunk_id |-> chunk_id, document_id |-> document_id,
                         chunk_index |-> chunk_index, start_char |-> start_char,
                         end_char |-> end_char, size |-> Len(content)])]

\* the loop of create_chunks over the pieces from index chunk_index on
RECURSIVE ChunkLoop(_, _, _, _, _)
ChunkLoop(document, document_id, text_chunks, chunk_index, current_position) ==
    IF chunk_index >= Len(text_chunks) THEN <<>>
    ELSE LET chunk_text == text_chunks[chunk_index + 1]
             found == find(document.content, chunk_text, current_position)
             start_char == IF found = 0 - 1 THEN current_position ELSE found
             end_char == start_char + Len(chunk_text)
             chunk_metadata == Merge(document.metadata,
                                     [document_name |-> document.name,
                                      document_source |-> document.source,
                                      document_type |-> document.doc_type,
                                      timestamp |-> "timestamp"])
         IN  <<ChunkOf(chunk_text, ChunkId(document_id, chunk_index), document_id,
                       chunk_index, start_char, end_char, chunk_metadata)>>
             \o ChunkLoop(document, document_id, text_chunks, chunk_index + 1, end_char)

\* DocumentProcessor.create_chunks; generated_id: what _generate_document_id
\* makes of the document's source and timestamp
create_chunks(document, document_id, generated_id) ==
    ChunkLoop(document, IF document_id = None THEN generated_id ELSE document_id[1],
              split_text(document.content), 0, 0)

\* collection.add(ids, documents, metadatas): what the store keeps of a chunk
StoredChunk(chunk) == [id |-> chunk.chunk_id, metadata |-> chunk.metadata]

\* the grouping loop of list_documents, with the keys it reads of the first
\* record of every document
RECURSIVE ListByMetadata(_)
ListByMetadata(fetched) ==
    IF fetched = <<>> THEN <<>>
    ELSE LET front == ListByMetadata(PyAllButLast(fetched))
             metadata == fetched[Len(fetched)].metadata
             doc_id == get(metadata, "document_id", "unknown")
         IN  IF \E i \in DOMAIN front : front[i].document_id = doc_id
             THEN [i \in DOMAIN front |->
                      IF front[i].document_id = doc_id
                      THEN [front[i] EXCEPT !.chunk_count = @ + 1,
                                            !.total_size = @ + get(metadata, "size", 0)]
                      ELSE front[i]]
             ELSE Append(front,
                         [document_id |-> doc_id,
                          document_name |-> get(metadata, "document_name", "Unknown"),
                          source |-> get(metadata, "source", "Unknown"),
                          doc_type |-> get(metadata, "doc_type", "Unknown"),
                          chunk_count |-> 1,
                          total_size |-> get(metadata, "size", 0)])

\* the SearchResult that search builds of a stored record
SearchResultOf(rec) ==
    [chunk_id |-> rec.id,
     document_id |-> get(rec.metadata, "document_id", ""),
     document_name |-> get(rec.metadata, "document_name", "Unknown"),
     document_source |-> get(rec.metadata, "source", "Unknown")]

\* a step of the chunking pipeline: the chat log and the store's own
\* bookkeeping are not involved
ChunkerStep(o, r, newdb) ==
    /\ op' = o
    /\ ret' = r
    /\ db_before' = db
    /\ db' = newdb
    /\ UNCHANGED <<chatVars, mm, chunks_count, deleted, was_closed, client,
                   collection, existing>>
    /\ Frame

\* create_chunks(document, document_id)
CreateChunks(document, document_id, generated_id) ==
    /\ ChunkerStep([name |-> "create_chunks", document |-> document,
                    document_id |-> document_id],
                   Return(create_chunks(document, document_id, generated_id)), db)

\* add_documents(chunks, embeddings) with the chunks just made
AddChunks ==
    /\ op.name = "create_chunks"
    /\ Len(db["documents"]) + Len(ret.value) <= MaxStored
    /\ \A i \in DOMAIN ret.value :
          \A j \in DOMAIN db["documents"] : db["documents"][j].id # ret.value[i].chunk_id
    /\ ChunkerStep([name |-> "add_documents", document |-> op.document],
                   Return(None),
                   [db EXCEPT !["documents"] =
                        @ \o [i \in DOMAIN ret.value |-> StoredChunk(ret.value[i])]])

\* list_documents()
ListChunkedDocuments ==
    /\ ChunkerStep([name |-> "list_documents", limit |-> None],
                   Return(ListByMetadata(db["documents"])), db)

\* search(query): every stored record as the hit it would be
SearchChunks ==
    /\ ChunkerStep([name |-> "search"],
                   Return([i \in DOMAIN db["documents"] |->
                              SearchResultOf(db["documents"][i])]), db)

FileNames == {<<"a", ".", "t", "x", "t">>, <<"b", ".", "M", "D">>, <<"c", ".", "p", "d", "f">>}
\* an empty text, one piece, two pieces, and two pieces the first of which
\* occurs twice in the text
Contents == {<<>>, <<"a">>, <<"a", "b", "a">>, <<"a", "a", "a">>}

\* documents as load_document makes them, and one built by hand whose own
\* metadata names a source and a type
Documents ==
    {load_document(name, content) : name \in FileNames, content \in Contents}
        \cup {[name |-> <<"h">>, content |-> <<"a", "b", "a">>, doc_type |-> <<"t", "x", "t">>,
               source |-> <<"/", "h">>,
               metadata |-> [source |-> <<"/", "h">>, doc_type |-> <<"t", "x", "t">>]]}

NextChunker ==
    \/ \E document \in Documents, document_id \in {None, Some("d1")} :
          CreateChunks(document, document_id, "g1")
    \/ AddChunks
    \/ ListChunkedDocuments
    \/ SearchChunks

SpecChunker == InitServiceOnly /\ [][NextChunker]_vars

(***************************************************************************)
(* Chunk metadata                                                          *)
(***************************************************************************)
REQUIRED_KEYS == {"document_name", "source", "doc_type", "size"}
CHUNK_KEYS == {"chunk_id", "document_id", "chunk_index", "start_char", "end_char", "size"}

\* C22: every chunk create_chunks makes of a document has in its metadata the
\* keys document_name, source, doc_type and size besides the chunk-specific
\* keys, and a listing or a search hit built of the stored metadata reports
\* the source and the type of the document
C22_ChunksCarryRequiredKeys ==
    /\ (op.name = "create_chunks") =>
          \A i \in DOMAIN ret.value :
              (REQUIRED_KEYS \cup CHUNK_KEYS) \subseteq DOMAIN ret.value[i].metadata
    /\ (op.name = "list_documents" /\ db_before["documents"] # <<>>) =>
          \A i \in DOMAIN ret.value :
              ret.value[i].source # "Unknown" /\ ret.value[i].doc_type # "Unknown"
    /\ (op.name = "search") =>
          \A i \in DOMAIN ret.value : ret.value[i].document_source # "Unknown"

\* a.txt was loaded, chunked and stored, and the listing reports its source
\* and type as Unknown
C22_Witness ==
    /\ op.name = "list_documents"
    /\ \E i \in DOMAIN db["documents"] :
          /\ db["documents"][i].metadata["document_name"] = <<"a", ".", "t", "x", "t">>
          /\ db["documents"][i].metadata["document_source"] = <<"/", "a", ".", "t", "x", "t">>
          /\ "source" \notin DOMAIN db["documents"][i].metadata
    /\ \E i \in DOMAIN ret.value :
          /\ ret.value[i].document_name = <<"a", ".", "t", "x", "t">>
          /\ ret.value[i].source = "Unknown"
          /\ ret.value[i].doc_type = "Unknown"

\* what the chunks do carry: the chunk-specific keys, the size among them,
\* the name, and the source and the type under the keys document_source and
\* document_type; source and doc_type only when the document's own metadata
\* has them
ChunksCarryWrittenKeys ==
    (op.name = "create_chunks") =>
        \A i \in DOMAIN ret.value :
            /\ CHUNK_KEYS \cup {"document_name", "document_source", "document_type",
                                "timestamp"} \subseteq DOMAIN ret.value[i].metadata
            /\ ret.value[i].metadata["document_source"] = op.document.source
            /\ ret.value[i].metadata["document_type"] = op.document.doc_type
            /\ ret.value[i].metadata["size"] = Len(ret.value[i].content)
            /\ \A k \in {"source", "doc_type"} :
                  k \in DOMAIN ret.value[i].metadata <=> k \in DOMAIN op.document.metadata

(***************************************************************************)
(* The vector of an ingested image                                         *)
(***************************************************************************)
\* C27: an image that add_file stored has, as its vector, the text embedding
\* of the caption stored with it
C27_VectorIsEmbeddingOfStoredCaption ==
    (ImageIngest /\ Ingested) =>
        /\ op.image_id \in Ids(db["images"])
        /\ StoredAs(op.image_id).vec = embed_text(StoredAs(op.image_id).caption)

\* a.png was ingested with the caller's caption "c": the caption stored is
\* "c", the vector stored is the embedding of the description "v"
C27_Witness ==
    /\ ImageIngest /\ Ingested /\ CaptionGiven
    /\ op.image_id \in Ids(db["images"])
    /\ StoredAs(op.image_id).caption = <<"c">>
    /\ StoredAs(op.image_id).vec = embed_text(<<"v">>)
    /\ embed_text(<<"v">>) # embed_text(<<"c">>)

\* the vector stored is the embedding of the description the vision model
\* gave to embed_image, whatever caption is stored
VectorIsEmbeddingOfDescription ==
    (ImageIngest /\ Ingested) =>
        /\ op.image_id \in Ids(db["images"])
        /\ StoredAs(op.image_id).vec = embed_text(strip(op.vision.description.value))
        /\ StoredAs(op.image_id).caption = ExpectedCaption

\* a reachable state: the vision model gave the same text as caption and as
\* description, and the vector is the embedding of the stored caption
SameTextTwice ==
    /\ ImageIngest /\ Ingested /\ ~CaptionGiven
    /\ op.image_id \in Ids(db["images"])
    /\ StoredAs(op.image_id).vec = embed_text(StoredAs(op.image_id).caption)

(***************************************************************************)
(* get_config: one instance                                                *)
(***************************************************************************)
\* no call so far asked for a reload
NoReload == config_py.reloads = 0

\* C23: while no call asks for a reload, however the calls of get_config
\* interleave, at most one Config object is made, exactly one once a call
\* has returned, and every call returns that object
C23_OneConfigInstance ==
    NoReload =>
        /\ config_py.created <= 1
        /\ \A i \in DOMAIN config_py.returned :
              /\ config_py.created = 1
              /\ config_py.returned[i].instance = <<1>>

\* two first calls overlapped without reload: two Config objects were made
\* and two calls returned different objects
C23_Witness ==
    /\ NoReload
    /\ config_py.created = 2
    /\ \E i, j \in DOMAIN config_py.returned :
          /\ config_py.returned[i].thread # config_py.returned[j].thread
          /\ config_py.returned[i].instance = <<1>>
          /\ config_py.returned[j].instance = <<2>>

\* calls that do not overlap share one instance
SequentialCallsShareInstance ==
    (NoReload /\ ~config_py.overlapped) =>
        /\ config_py.created <= 1
        /\ \A i \in DOMAIN config_py.returned :
              /\ config_py.created = 1
              /\ config_py.returned[i].instance = <<1>>

\* every call returns a Config object, and one that had been made by then
ReturnsAnInstance ==
    \A i \in DOMAIN config_py.returned :
        /\ config_py.returned[i].instance # <<>>
        /\ config_py.returned[i].instance[1] \in 1..config_py.created

(***************************************************************************)
(* The count delete returns                                                *)
(***************************************************************************)
\* C25: whatever other handlers upsert or delete on the collection while a
\* delete runs, the count the delete returns is the number of records its
\* own backend call removed, and is not negative
C25_DeleteCountsItsOwnRemovals ==
    \A i \in DOMAIN deleting.finished :
        deleting.finished[i].ret.raised = "none" =>
            /\ deleting.finished[i].ret.value = deleting.finished[i].removed
            /\ deleting.finished[i].ret.value >= 0

\* a delete that removed nothing returned a negative count: another handler
\* upserted between its two counts
C25_Witness ==
    \E i \in DOMAIN deleting.finished :
        /\ deleting.finished[i].ret.raised = "none"
        /\ deleting.finished[i].disturbed
        /\ deleting.finished[i].removed = 0
        /\ deleting.finished[i].ret.value < 0

\* a reachable state: two deletes ran at once and one of them returned the
\* records the other removed as well
CountsOthersRemovals ==
    \E i \in DOMAIN deleting.finished :
        /\ deleting.finished[i].ret.raised = "none"
        /\ deleting.finished[i].ret.value > deleting.finished[i].removed

\* a delete during which no other handler changed the collection returns
\* the number of records it removed
UndisturbedDeleteCountsRemovals ==
    \A i \in DOMAIN deleting.finished :
        (deleting.finished[i].ret.raised = "none" /\ ~deleting.finished[i].disturbed) =>
            /\ deleting.finished[i].ret.value = deleting.finished[i].removed
            /\ deleting.finished[i].ret.value >= 0

(***************************************************************************)
(* MultimodalRAGEngine.query_with_images: the images handed to the LLM     *)
(***************************************************************************)
\* paths of image files, as the strings str(Path(p)) gives
Paths == {"p1", "p2"}

\* a hit of search_multimodal as query_with_images reads it: a text hit, or
\* an image hit with its image_path (None when the hit has none)
TextHit == [result_type |-> "text", image_path |-> None]
ImageHit(image_path) == [result_type |-> "image", image_path |-> image_path]

\* the loop over search_results: the paths of the image hits that have a
\* path whose file exists
RECURSIVE ContextImages(_, _)
ContextImages(search_results, on_disk) ==
    IF search_results = <<>> THEN <<>>
    ELSE LET hit == Head(search_results)
             rest == ContextImages(Tail(search_results), on_disk)
         IN  IF /\ hit.result_type = "image"
                /\ hit.image_path # None
                /\ hit.image_path[1] \in on_disk
             THEN <<hit.image_path[1]>> \o rest
             ELSE rest

\* the loop over image_paths: the paths whose file exists
UserImages(image_paths, on_disk) ==
    IF image_paths = None \/ image_paths[1] = <<>> THEN <<>>
    ELSE SelectSeq(image_paths[1], LAMBDA path : path \in on_disk)

\* MultimodalRAGEngine.query_with_images. search_results: what search_multimodal
\* returns or raises; on_disk: the files that exist; response: what the LLM
\* answers. sent: the images of the message handed to the LLM, None when the
\* LLM is not called
query_with_images(query, image_paths, search_results, on_disk, response) ==
    LET all_images == UserImages(image_paths, on_disk)
                          \o ContextImages(search_results.value, on_disk)
    IN  IF strip(query) = <<>>
        THEN [ret |-> Raise("MultimodalRAGEngineError"), sent |-> None]
        ELSE IF search_results.raised # "none"
        THEN [ret |-> Raise("MultimodalRAGEngineError"), sent |-> None]
        ELSE IF response.raised # "none" \/ strip(response.value) = <<>>
        THEN [ret |-> Raise("MultimodalRAGEngineError"), sent |-> Some(all_images)]
        ELSE [ret |-> Return([answer |-> strip(response.value),
                              context_count |-> Len(search_results.value),
                              images_used |-> Len(all_images)]),
              sent |-> Some(all_images)]

\* query_with_images(query, image_paths), called once with the arguments and
\* in the surroundings that were drawn
QueryWithImages ==
    LET a == op.args
        out == query_with_images(a.query, a.image_paths, a.search, a.on_disk,
                                 a.response)
    IN  /\ op.name = "caller"
        /\ op' = [name |-> "query_with_images", query |-> a.query,
                  image_paths |-> a.image_paths, search |-> a.search,
                  on_disk |-> a.on_disk, response |-> a.response,
                  sent |-> out.sent]
        /\ ret' = out.ret
        /\ UNCHANGED <<chatVars, mm, db, db_before, chunks_count, deleted,
                       was_closed, client, collection, existing>>
        /\ Frame

\* at most MaxK hits, no image twice
HitLists ==
    {hits \in SeqsUpTo({TextHit, ImageHit(None)} \cup {ImageHit(Some(p)) : p \in Paths},
                       MaxK) :
        \A i, j \in DOMAIN hits :
            (hits[i].result_type = "image" /\ hits[i] = hits[j]) => i = j}

\* no list, an empty list, and lists of one or two paths, the same path
\* twice among them
ImagePathLists == {None} \cup {Some(l) : l \in SeqsUpTo(Paths, 2)}

QueryArgs ==
    {[query |-> q, image_paths |-> l, search |-> Return(hits), on_disk |-> d,
      response |-> r] :
        q \in {<<" ">>, <<"a">>}, l \in ImagePathLists, hits \in HitLists,
        d \in SUBSET Paths, r \in {Return(<<"a">>)}}
    \cup
    {[query |-> <<"a">>, image_paths |-> Some(<<"p1">>), search |-> sr[1],
      on_disk |-> d, response |-> sr[2]] :
        sr \in {<<Raise("MultimodalRAGEngineError"), Return(<<"a">>)>>,
                <<Return(<<ImageHit(Some("p2"))>>), Raise("BackendError")>>,
                <<Return(<<ImageHit(Some("p2"))>>), Return(<<" ">>)>>},
        d \in SUBSET Paths}

\* an engine on an open store, and a caller about to call query_with_images
InitQuery ==
    /\ NoChat
    /\ vector_db_type = "chroma"
    /\ image_caption_auto_generate = DEFAULT_IMAGE_CAPTION_AUTO_GENERATE
    /\ config_py = NoConfig
    /\ deleting = NoDelete
    /\ collection_name = "documents"
    /\ client = TRUE
    /\ collection = TRUE
    /\ existing = CollNames
    /\ db = [n \in CollNames |-> <<>>]
    /\ db_before = [n \in CollNames |-> <<>>]
    /\ op \in {[name |-> "caller", args |-> a] : a \in QueryArgs}
    /\ ret = Return(None)
    /\ chunks_count = [d \in DocIds |-> None]
    /\ deleted = {}
    /\ was_closed = FALSE
    /\ mm = NoFusion

NextQuery == QueryWithImages

SpecQuery == InitQuery /\ [][NextQuery]_vars

\* the members of a list
Range(l) == {l[i] : i \in DOMAIN l}

\* the call got as far as the LLM
Asked == op.name = "query_with_images" /\ op.sent # None

SuppliedPaths == IF op.image_paths = None THEN {} ELSE Range(op.image_paths[1])
HitPaths ==
    {op.search.value[i].image_path[1] :
        i \in {j \in DOMAIN op.search.value :
                  /\ op.search.value[j].result_type = "image"
                  /\ op.search.value[j].image_path # None}}

\* C21: the images query_with_images hands to the LLM are the supplied paths
\* that exist together with the paths of the image hits whose file exists,
\* no path twice; a path that does not exist is left out and is no reason
\* for the call to fail
C21_ImagesAreSetUnion ==
    /\ Asked =>
          /\ Range(op.sent[1]) = (SuppliedPaths \cup HitPaths) \cap op.on_disk
          /\ \A i, j \in DOMAIN op.sent[1] : op.sent[1][i] = op.sent[1][j] => i = j
    /\ (/\ op.name = "query_with_images"
        /\ strip(op.query) # <<>>
        /\ op.search.raised = "none"
        /\ op.response.raised = "none" /\ strip(op.response.value) # <<>>)
          => ret.raised = "none"

\* p1 exists, was supplied by the caller and is the file of a retrieved
\* image hit: the LLM gets p1 twice and images_used is 2
C21_Witness ==
    /\ Asked /\ ret.raised = "none"
    /\ op.image_paths = Some(<<"p1">>)
    /\ op.search.value = <<ImageHit(Some("p1"))>>
    /\ op.sent = Some(<<"p1", "p1">>)
    /\ ret.value.images_used = 2

\* what holds: the members are those of the union, the supplied paths come
\* first, missing paths never fail the call, and a path comes twice only
\* when it was supplied twice or supplied and retrieved
ImagesAreConcatenation ==
    /\ Asked =>
          /\ Range(op.sent[1]) = (SuppliedPaths \cup HitPaths) \cap op.on_disk
          /\ op.sent[1] = UserImages(op.image_paths, op.on_disk)
                              \o ContextImages(op.search.value, op.on_disk)
          /\ (/\ SuppliedPaths \cap HitPaths = {}
              /\ op.image_paths # None =>
                    \A i, j \in DOMAIN op.image_paths[1] :
                        op.image_paths[1][i] = op.image_paths[1][j] => i = j)
                => \A i, j \in DOMAIN op.sent[1] :
                       op.sent[1][i] = op.sent[1][j] => i = j
    /\ (/\ op.name = "query_with_images"
        /\ strip(op.query) # <<>>
        /\ op.search.raised = "none"
        /\ op.response.raised = "none" /\ strip(op.response.value) # <<>>)
          => ret.raised = "none"

====
